---- MODULE Spec2Model ----
(***************************************************************************)
(* Plan parsing, lap normalisation and interval matching of the workout    *)
(* summarizer (src/app.py).  Text is modelled as a sequence of one-        *)
(* character strings, so the regular expressions of the source are         *)
(* evaluated character by character.  An optional value (Python None or a  *)
(* value) is the empty sequence or a one-element sequence.                 *)
(***************************************************************************)
EXTENDS Integers, Sequences, FiniteSets, TLC

VARIABLES pc,
          line, result,
          lines, i, planned_blocks, num_rounds, raised,
          actual_laps, sport, block_index, lap_index, combined_laps,
          accumulated_duration, accumulated_distance, grouped,
          laps, min_duration, lap_i, processed_laps,
          lengths, current_set, current_laps,
          request, response, minute_hits, served, today

vars == <<pc, line, result, lines, i, planned_blocks, num_rounds, raised,
          actual_laps, sport, block_index, lap_index, combined_laps,
          accumulated_duration, accumulated_distance, grouped,
          laps, min_duration, lap_i, processed_laps,
          lengths, current_set, current_laps,
          request, response, minute_hits, served, today>>

lineVars == <<line, result>>
parseVars == <<lines, i, num_rounds, raised>>
matchVars == <<actual_laps, block_index, lap_index, combined_laps,
               accumulated_duration, accumulated_distance, grouped>>
fitVars == <<laps, min_duration, lap_i>>
formVars == <<lengths, current_set, current_laps>>
apiVars == <<request, response, minute_hits, served, today>>

\* No request has been made
ApiIdle ==
    /\ request = <<>> /\ response = <<>>
    /\ minute_hits = 0 /\ served = <<>> /\ today = 0

----------------------------------------------------------------------------
(* Optional values and small helpers                                       *)

None == <<>>
Some(v) == <<v>>
IsNone(o) == o = <<>>
\* Python truthiness of an optional number: None and 0 are both false.
Truthy(o) == o # <<>> /\ o[1] # 0

Min(S) == CHOOSE x \in S : \A y \in S : x <= y
Max(S) == CHOOSE x \in S : \A y \in S : x >= y

----------------------------------------------------------------------------
(* Characters                                                              *)

Digits == {"0", "1", "2", "3", "4", "5", "6", "7", "8", "9"}
DigitDot == Digits \cup {"."}
Spaces == {" ", "\t"}
Uppers == <<"A", "B", "C", "D", "E", "F", "G", "H", "I", "J", "K", "L", "M", "N", "O", "P", "Q", "R", "S", "T", "U", "V", "W", "X", "Y", "Z">>
Lowers == <<"a", "b", "c", "d", "e", "f", "g", "h", "i", "j", "k", "l", "m", "n", "o", "p", "q", "r", "s", "t", "u", "v", "w", "x", "y", "z">>
Letters == {Uppers[k] : k \in 1..26} \cup {Lowers[k] : k \in 1..26}

DigitVal(c) == CHOOSE v \in 0..9 : <<"0", "1", "2", "3", "4", "5", "6", "7", "8", "9">>[v + 1] = c

LowerChar(c) ==
    IF \E k \in 1..26 : Uppers[k] = c
    THEN Lowers[CHOOSE k \in 1..26 : Uppers[k] = c]
    ELSE c

\* str.lower()
lower(s) == [k \in 1..Len(s) |-> LowerChar(s[k])]

\* The literal w stands in s at position p (1-based).
MatchAt(s, p, w) ==
    /\ p >= 1
    /\ p + Len(w) - 1 <= Len(s)
    /\ \A k \in 1..Len(w) : s[p + k - 1] = w[k]

\* The same, ignoring case (re.IGNORECASE); w is given in lower case.
MatchAtCI(s, p, w) ==
    /\ p >= 1
    /\ p + Len(w) - 1 <= Len(s)
    /\ \A k \in 1..Len(w) : LowerChar(s[p + k - 1]) = w[k]

\* `w in s`
Contains(s, w) == \E p \in 1..(Len(s) - Len(w) + 1) : MatchAt(s, p, w)

\* First position after the longest run of characters of cls that starts at
\* p: a greedy  cls*  (no pattern of the source gains by giving characters
\* back, since what follows a run is never in the run's class).
RECURSIVE RunEnd(_, _, _)
RunEnd(s, p, cls) ==
    IF p <= Len(s) /\ s[p] \in cls THEN RunEnd(s, p + 1, cls) ELSE p

\* (?:\s|$) at position p
SpaceOrEnd(s, p) == p > Len(s) \/ s[p] \in Spaces

\* (?:^|\s) right before position t
StartOrSpace(s, t) == t = 1 \/ (t > 1 /\ s[t - 1] \in Spaces)

\* str.strip()
RECURSIVE StripLeft(_)
StripLeft(s) ==
    IF s # <<>> /\ Head(s) \in Spaces THEN StripLeft(Tail(s)) ELSE s
RECURSIVE StripRight(_)
StripRight(s) ==
    IF s # <<>> /\ s[Len(s)] \in Spaces
    THEN StripRight(SubSeq(s, 1, Len(s) - 1)) ELSE s
strip(s) == StripRight(StripLeft(s))

\* int() of a run of digits
RECURSIVE int(_)
int(s) ==
    IF s = <<>> THEN 0
    ELSE 10 * int(SubSeq(s, 1, Len(s) - 1)) + DigitVal(s[Len(s)])

CountOf(s, c) == Cardinality({k \in 1..Len(s) : s[k] = c})

\* float() of a run of digits and dots raises ValueError unless the run has
\* at most one dot and at least one digit.
FloatRaises(s) == CountOf(s, ".") > 1 \/ CountOf(s, ".") = Len(s)

\* float(s) * 1000 for a run float() accepts, in whole metres (the plan
\* lines of this model keep at most three decimals).
FloatTimes1000(s) ==
    LET dots == {k \in 1..Len(s) : s[k] = "."}
        d == IF dots = {} THEN Len(s) + 1 ELSE Min(dots)
        whole == SubSeq(s, 1, d - 1)
        frac == SubSeq(s, d + 1, Len(s))
        frac3 == [k \in 1..3 |-> IF k <= Len(frac) THEN frac[k] ELSE "0"]
    IN int(whole) * 1000 + int(frac3)

----------------------------------------------------------------------------
(* Pace and duration tokens                                                *)

\* A speed in m/s is kept exact, as the fraction num/den.
Speed(n, d) == [num |-> n, den |-> d]
ZeroSpeed == [num |-> 0, den |-> 1]

\* int() accepts the part (the parts the patterns capture are digit runs).
IntOK(s) == s # <<>> /\ \A k \in 1..Len(s) : s[k] \in Digits

\* Speed of a pace "M:SS" over `metres` metres; 0 for anything else
\* (the try/except of the source swallows int()'s ValueError).
PaceToSpeed(pace_str, metres) ==
    LET s == strip(pace_str)
        colons == {k \in 1..Len(s) : s[k] = ":"}
    IN IF Cardinality(colons) = 1
       THEN LET c == CHOOSE k \in colons : TRUE
                a == SubSeq(s, 1, c - 1)
                b == SubSeq(s, c + 1, Len(s))
            IN IF IntOK(a) /\ IntOK(b) /\ int(a) * 60 + int(b) > 0
               THEN Speed(metres, int(a) * 60 + int(b))
               ELSE ZeroSpeed
       ELSE ZeroSpeed

parse_pace_to_speed(pace_str) == PaceToSpeed(pace_str, 1000)

parse_swim_pace_to_speed(pace_str) == PaceToSpeed(pace_str, 100)

\* re.match(r'(\d+):(\d+)'), then r'(\d+)\s*m', then r'(\d+)\s*s'
parse_duration_text(duration_str) ==
    LET s == duration_str
        q == RunEnd(s, 1, Digits)
        r == RunEnd(s, q + 1, Digits)
        u == RunEnd(s, q, Spaces)
    IN IF q > 1 /\ q <= Len(s) /\ s[q] = ":" /\ r > q + 1
       THEN int(SubSeq(s, 1, q - 1)) * 60 + int(SubSeq(s, q + 1, r - 1))
       ELSE IF q > 1 /\ u <= Len(s) /\ LowerChar(s[u]) = "m"
       THEN int(SubSeq(s, 1, q - 1)) * 60
       ELSE IF q > 1 /\ u <= Len(s) /\ LowerChar(s[u]) = "s"
       THEN int(SubSeq(s, 1, q - 1))
       ELSE 0

----------------------------------------------------------------------------
(* Keyword classification                                                  *)

RecoveryKeywords == {<<"r", "e", "s", "t">>, <<"r", "e", "c", "o", "v", "e", "r", "y">>, <<"e", "a", "s", "y">>, <<"o", "f", "f">>, <<"a", "c", "t", "i", "v", "e">>}
WarmupKeywords == {<<"w", "a", "r", "m", "u", "p">>, <<"w", "a", "r", "m", " ", "u", "p">>, <<"w", "a", "r", "m", "-", "u", "p">>, <<"w", "a", "r", "m", " ", "d", "o", "w", "n">>}
CoolKeywords == {<<"c", "o", "o", "l", "d", "o", "w", "n">>, <<"c", "o", "o", "l", " ", "d", "o", "w", "n">>, <<"c", "o", "o", "l", "-", "d", "o", "w", "n">>, <<"c", "o", "o", "l">>}

\* The scan with the warm-up keywords tried first
GetIntervalTypeWarmupFirst(text) ==
    LET text_lower == lower(text)
    IN IF \E kw \in WarmupKeywords : Contains(text_lower, kw) THEN "WARMUP"
       ELSE IF \E kw \in RecoveryKeywords : Contains(text_lower, kw) THEN "RECOVERY"
       ELSE IF \E kw \in CoolKeywords : Contains(text_lower, kw) THEN "COOL"
       ELSE "WORK"

get_interval_type(text) ==
    LET text_lower == lower(text)
    IN IF \E kw \in RecoveryKeywords : Contains(text_lower, kw) THEN "RECOVERY"
       ELSE IF \E kw \in WarmupKeywords : Contains(text_lower, kw) THEN "WARMUP"
       ELSE IF \E kw \in CoolKeywords : Contains(text_lower, kw) THEN "COOL"
       ELSE "WORK"

\* stroke_map, in the insertion order the loop scans it
stroke_map ==
    << <<<<"f", "s">>, "Freestyle">>, <<<<"f", "r", "e", "e", "s", "t", "y", "l", "e">>, "Freestyle">>,
       <<<<"f", "r", "e", "e">>, "Freestyle">>, <<<<"b", "a", "c", "k">>, "Backstroke">>,
       <<<<"b", "a", "c", "k", "s", "t", "r", "o", "k", "e">>, "Backstroke">>, <<<<"b", "r", "e", "a", "s", "t">>, "Breaststroke">>,
       <<<<"b", "r", "e", "a", "s", "t", "s", "t", "r", "o", "k", "e">>, "Breaststroke">>, <<<<"f", "l", "y">>, "Butterfly">>,
       <<<<"b", "u", "t", "t", "e", "r", "f", "l", "y">>, "Butterfly">>, <<<<"i", "m">>, "IM">>, <<<<"p", "u", "l", "l">>, "Pull">>,
       <<<<"k", "i", "c", "k">>, "Kick">>, <<<<"d", "r", "i", "l", "l">>, "Drill">>, <<<<"c", "h", "o", "i", "c", "e">>, "Choice">> >>

get_swim_stroke(text) ==
    LET text_lower == lower(text)
        hits == {k \in 1..Len(stroke_map) : Contains(text_lower, stroke_map[k][1])}
    IN IF hits = {} THEN None ELSE Some(stroke_map[Min(hits)][2])

----------------------------------------------------------------------------
(* The patterns of parse_intervals_icu_line.  re.search returns the        *)
(* leftmost match: the least position at which the pattern matches, 0 here *)
(* when there is none.                                                     *)

FirstOf(S) == IF S = {} THEN 0 ELSE Min(S)

LabelWords == {<<"w", "a", "r", "m", " ", "u", "p">>, <<"m", "a", "i", "n", " ", "s", "e", "t">>, <<"w", "a", "r", "m", " ", "d", "o", "w", "n">>, <<"c", "o", "o", "l", " ", "d", "o", "w", "n">>}

\* re.sub(r'^(Warm Up|Main Set|Warm Down|Cool Down):\s*', '', line, IGNORECASE)
StripLabel(s) ==
    IF \E w \in LabelWords : MatchAtCI(s, 1, w \o <<":">>)
    THEN LET w == CHOOSE x \in LabelWords : MatchAtCI(s, 1, x \o <<":">>)
         IN SubSeq(s, RunEnd(s, Len(w) + 2, Spaces), Len(s))
    ELSE s

\* r'([\d.]+)\s*km(?:\s|$)' at p, IGNORECASE
KmAt(s, p) ==
    LET q == RunEnd(s, p, DigitDot)
        r == RunEnd(s, q, Spaces)
    IN q > p /\ MatchAtCI(s, r, <<"k", "m">>) /\ SpaceOrEnd(s, r + 2)

\* r'(\d+)\s*m(?:\s|$)' at p, IGNORECASE
MetresAt(s, p) ==
    LET q == RunEnd(s, p, Digits)
        r == RunEnd(s, q, Spaces)
    IN q > p /\ MatchAtCI(s, r, <<"m">>) /\ SpaceOrEnd(s, r + 1)

\* r'(?:^|\s)(\d+)<unit>(?:\s|$)' with the digits at t, IGNORECASE
UnitTokenAt(s, t, unit) ==
    LET q == RunEnd(s, t, Digits)
    IN StartOrSpace(s, t) /\ q > t /\ MatchAtCI(s, q, unit) /\ SpaceOrEnd(s, q + 1)

\* End of r'\d+:\d+' at t, 0 when it does not match there
ClockEnd(s, t) ==
    LET q == RunEnd(s, t, Digits)
        r == RunEnd(s, q + 1, Digits)
    IN IF q > t /\ q <= Len(s) /\ s[q] = ":" /\ r > q + 1 THEN r ELSE 0

\* r'(?:^|\s)(\d+:\d+)(?:\s|$)' with the token at t
TimeTokenAt(s, t) ==
    StartOrSpace(s, t) /\ ClockEnd(s, t) > 0 /\ SpaceOrEnd(s, ClockEnd(s, t))

\* r'\((\d+:\d+)-(\d+:\d+)\)' at p: the two captures, or <<>>
PaceRangeAt(s, p) ==
    IF p >= 1 /\ p <= Len(s) /\ s[p] = "(" /\ ClockEnd(s, p + 1) > 0
    THEN LET e1 == ClockEnd(s, p + 1)
         IN IF e1 <= Len(s) /\ s[e1] = "-" /\ ClockEnd(s, e1 + 1) > 0
            THEN LET e2 == ClockEnd(s, e1 + 1)
                 IN IF e2 <= Len(s) /\ s[e2] = ")"
                    THEN <<SubSeq(s, p + 1, e1 - 1), SubSeq(s, e1 + 1, e2 - 1)>>
                    ELSE <<>>
            ELSE <<>>
    ELSE <<>>

\* r'Pace\s*\((\d+:\d+)-(\d+:\d+)\)' at p, IGNORECASE
SwimPaceAt(s, p) ==
    IF MatchAtCI(s, p, <<"p", "a", "c", "e">>)
    THEN PaceRangeAt(s, RunEnd(s, p + 4, Spaces))
    ELSE <<>>

\* r'\((\d+)-(\d+)\s*w\)' at p, IGNORECASE: the two captures, or <<>>
PowerAt(s, p) ==
    LET q == RunEnd(s, p + 1, Digits)
        r == RunEnd(s, q + 1, Digits)
        u == RunEnd(s, r, Spaces)
    IN IF /\ p <= Len(s) /\ s[p] = "(" /\ q > p + 1
          /\ q <= Len(s) /\ s[q] = "-" /\ r > q + 1
          /\ MatchAtCI(s, u, <<"w", ")">>)
       THEN <<SubSeq(s, p + 1, q - 1), SubSeq(s, q + 1, r - 1)>>
       ELSE <<>>

\* r'(\d+)-(\d+)%' at p: the two captures, or <<>>
IntensityAt(s, p) ==
    LET q == RunEnd(s, p, Digits)
        r == RunEnd(s, q + 1, Digits)
    IN IF /\ q > p /\ q <= Len(s) /\ s[q] = "-" /\ r > q + 1
          /\ r <= Len(s) /\ s[r] = "%"
       THEN <<SubSeq(s, p, q - 1), SubSeq(s, q + 1, r - 1)>>
       ELSE <<>>

----------------------------------------------------------------------------
(* parse_intervals_icu_line                                                *)

\* target_distance: [raises, value]; float() of the km capture may raise.
DistanceOf(s) ==
    LET km == FirstOf({p \in 1..Len(s) : KmAt(s, p)})
        m == FirstOf({p \in 1..Len(s) : MetresAt(s, p)})
    IN IF km > 0
       THEN LET g == SubSeq(s, km, RunEnd(s, km, DigitDot) - 1)
            IN IF FloatRaises(g)
               THEN [raises |-> TRUE, value |-> None]
               ELSE [raises |-> FALSE, value |-> Some(FloatTimes1000(g))]
       ELSE IF m > 0
       THEN [raises |-> FALSE,
             value |-> Some(int(SubSeq(s, m, RunEnd(s, m, Digits) - 1)))]
       ELSE [raises |-> FALSE, value |-> None]

\* Position of the token each duration pattern finds (0: no match)
MinutesToken(s) == FirstOf({t \in 1..Len(s) : UnitTokenAt(s, t, <<"m">>)})
SecondsToken(s) == FirstOf({t \in 1..Len(s) : UnitTokenAt(s, t, <<"s">>)})
TimeToken(s) == FirstOf({t \in 1..Len(s) : TimeTokenAt(s, t)})

\* line[:match_start] for the MM:SS token at t: the match starts at the
\* white space before the token, or at the token when it opens the line.
BeforeMatch(s, t) == SubSeq(s, 1, IF t = 1 THEN 0 ELSE t - 2)

\* The test left out: every MM:SS token counts as a duration
NotInParensUnchecked(s, t) == TRUE

\* '(' not in line[:match_start] or ')' in line[:match_start]
NotInParens(s, t) ==
    LET before == BeforeMatch(s, t)
    IN (\A k \in 1..Len(before) : before[k] # "(")
       \/ (\E k \in 1..Len(before) : before[k] = ")")

\* Which pattern gives the duration: "m", "s", "clock" or "none"
DurationSource(s) ==
    IF MinutesToken(s) > 0 THEN "m"
    ELSE IF SecondsToken(s) > 0 THEN "s"
    ELSE IF TimeToken(s) > 0 /\ NotInParens(s, TimeToken(s)) THEN "clock"
    ELSE "none"

DurationOf(s) ==
    LET src == DurationSource(s)
    IN IF src = "m"
       THEN LET t == MinutesToken(s)
            IN int(SubSeq(s, t, RunEnd(s, t, Digits) - 1)) * 60
       ELSE IF src = "s"
       THEN LET t == SecondsToken(s)
            IN int(SubSeq(s, t, RunEnd(s, t, Digits) - 1))
       ELSE IF src = "clock"
       THEN LET t == TimeToken(s)
            IN parse_duration_text(SubSeq(s, t, ClockEnd(s, t) - 1))
       ELSE 0

\* The land range read the other way round: minimum from the first pace
PaceOfLandFirst(s) ==
    LET sw == FirstOf({p \in 1..Len(s) : SwimPaceAt(s, p) # <<>>})
        rn == FirstOf({p \in 1..Len(s) : PaceRangeAt(s, p) # <<>>})
    IN IF sw > 0
       THEN LET g == SwimPaceAt(s, sw)
            IN [pace_range |-> Some(g),
                target_pace_min_ms |-> Some(parse_swim_pace_to_speed(g[2])),
                target_pace_max_ms |-> Some(parse_swim_pace_to_speed(g[1]))]
       ELSE IF rn > 0
       THEN LET g == PaceRangeAt(s, rn)
            IN [pace_range |-> Some(g),
                target_pace_min_ms |-> Some(parse_pace_to_speed(g[1])),
                target_pace_max_ms |-> Some(parse_pace_to_speed(g[2]))]
       ELSE [pace_range |-> None, target_pace_min_ms |-> None,
             target_pace_max_ms |-> None]

\* pace_range, target_pace_min_ms, target_pace_max_ms
PaceOf(s) ==
    LET sw == FirstOf({p \in 1..Len(s) : SwimPaceAt(s, p) # <<>>})
        rn == FirstOf({p \in 1..Len(s) : PaceRangeAt(s, p) # <<>>})
    IN IF sw > 0
       THEN LET g == SwimPaceAt(s, sw)
            IN [pace_range |-> Some(g),
                target_pace_min_ms |-> Some(parse_swim_pace_to_speed(g[2])),
                target_pace_max_ms |-> Some(parse_swim_pace_to_speed(g[1]))]
       ELSE IF rn > 0
       THEN LET g == PaceRangeAt(s, rn)
            IN [pace_range |-> Some(g),
                target_pace_min_ms |-> Some(parse_pace_to_speed(g[2])),
                target_pace_max_ms |-> Some(parse_pace_to_speed(g[1]))]
       ELSE [pace_range |-> None, target_pace_min_ms |-> None,
             target_pace_max_ms |-> None]

\* target_power_min, target_power_max (power_range is their formatted pair)
PowerOf(s) ==
    LET p == FirstOf({k \in 1..Len(s) : PowerAt(s, k) # <<>>})
    IN IF p > 0
       THEN LET g == PowerAt(s, p) IN Some(<<int(g[1]), int(g[2])>>)
       ELSE None

IntensityOf(s) ==
    LET p == FirstOf({k \in 1..Len(s) : IntensityAt(s, k) # <<>>})
    IN IF p > 0 THEN Some(IntensityAt(s, p)) ELSE None

\* The outcome of one call: raises, or returns None or a block.
parse_intervals_icu_line(line0) ==
    LET stripped == strip(line0)
        s == StripLabel(stripped)
        target_distance == DistanceOf(s)
        pace == PaceOf(s)
    IN IF stripped = <<>> \/ s = <<>>
       THEN [raises |-> FALSE, ret |-> None]
       ELSE IF target_distance.raises
       THEN [raises |-> TRUE, ret |-> None]
       ELSE [raises |-> FALSE,
             ret |-> Some([type |-> get_interval_type(s),
                           duration_seconds |-> DurationOf(s),
                           target_distance_m |-> target_distance.value,
                           swim_stroke |-> get_swim_stroke(s),
                           pace_range |-> pace.pace_range,
                           target_pace_min_ms |-> pace.target_pace_min_ms,
                           target_pace_max_ms |-> pace.target_pace_max_ms,
                           power_range |-> PowerOf(s),
                           intensity_range |-> IntensityOf(s),
                           raw_text |-> s])]

----------------------------------------------------------------------------
(* Plan lines the model parses                                             *)

\* The running example of the plan format help (src/app.py:1260)
ExampleLine == <<"H", "a", "r", "d", " ", "8", "m", " ", "9", "0", "-", "9", "2", "%", " ", "P", "a", "c", "e", " ", "(", "5", ":", "4", "9", "-", "5", ":", "5", "7", " ", "f", "o", "r", " ", "1", ".", "3", "k", "m", ")">>

\* Longest token line the model builds, on top of the fixed lines
MaxTokens == 3

LineTokens ==
    {<<"H", "a", "r", "d">>, <<"8", "m">>, <<"2", "0", "s">>, <<"5", ":", "4", "9">>, <<"(">>, <<")">>, <<"1", ".", "3", "k", "m">>,
     <<"1", ".", "3", "k", "m", ")">>, <<"1", ".", "2", ".", "3", "k", "m">>, <<"0", "k", "m">>}

RECURSIVE TokenLines(_)
TokenLines(n) ==
    IF n = 0 THEN {}
    ELSE LineTokens \cup TokenLines(n - 1)
         \cup {l \o <<" ">> \o t : l \in TokenLines(n - 1), t \in LineTokens}

FixedLines ==
    {ExampleLine, <<"M", "a", "i", "n", " ", "S", "e", "t", ":", " ", "H", "a", "r", "d", " ", "8", "m">>, <<"S", "w", "i", "m", " ", "1", "0", "0", "m", " ", "P", "a", "c", "e", " ", "(", "1", ":", "5", "0", "-", "2", ":", "0", "0", ")">>,
     <<"T", "e", "m", "p", "o", " ", "1", "0", ":", "0", "0", " ", "(", "5", ":", "4", "9", "-", "5", ":", "5", "7", ")">>, <<"B", "i", "k", "e", " ", "5", "m", " ", "(", "2", "0", "0", "-", "2", "5", "0", "w", ")">>,
     <<"E", "a", "s", "y", " ", "W", "a", "r", "m", " ", "u", "p", " ", "5", "m">>, <<"W", "a", "r", "m", " ", "u", "p", " ", "1", "0", "m">>, <<"W", "a", "r", "m", " ", "d", "o", "w", "n", " ", "5", "m">>,
     <<"W", "a", "r", "m", "-", "u", "p", " ", "t", "h", "e", "n", " ", "C", "o", "o", "l", " ", "5", "m">>, <<"C", "o", "o", "l", " ", "D", "o", "w", "n", " ", "5", "m">>, <<"E", "A", "S", "Y", " ", "c", "o", "o", "l", "d", "o", "w", "n", " ", "5", "m">>,
     <<"T", "a", "k", "e", "o", "f", "f", " ", "5", "m">>, <<"M", "a", "i", "n", " ", "s", "e", "t", " ", "w", "o", "r", "k", " ", "5", "m">>,
     <<"T", "e", "m", "p", "o", " ", "1", "0", ":", "0", "0", " ", "(", "5", ":", "5", "7", "-", "5", ":", "4", "9", ")">>, <<"S", "w", "i", "m", " ", "1", "0", "0", "m", " ", "P", "a", "c", "e", " ", "(", "2", ":", "0", "0", "-", "1", ":", "5", "0", ")">>,
     <<"S", "w", "i", "m", " ", "1", "0", "0", "m", " ", "p", "a", "c", "e", "(", "0", ":", "0", "0", "-", "2", ":", "0", "0", ")">>}

LineInputs == TokenLines(MaxTokens) \cup FixedLines

----------------------------------------------------------------------------
(* One call of parse_intervals_icu_line on one line                        *)

Idle == <<>>

InitLine ==
    /\ pc = "line"
    /\ line \in LineInputs
    /\ result = Idle
    /\ lines = Idle /\ i = 0 /\ planned_blocks = Idle /\ num_rounds = 0
    /\ raised = FALSE /\ ApiIdle
    /\ actual_laps = Idle /\ sport = "" /\ block_index = 0 /\ lap_index = 0
    /\ combined_laps = Idle /\ accumulated_duration = 0
    /\ accumulated_distance = 0 /\ grouped = Idle
    /\ laps = Idle /\ min_duration = 0 /\ lap_i = 0 /\ processed_laps = Idle
    /\ lengths = Idle /\ current_set = Idle /\ current_laps = Idle

ParseLine ==
    /\ pc = "line"
    /\ result' = parse_intervals_icu_line(line)
    /\ pc' = "line_done"
    /\ UNCHANGED <<line, parseVars, planned_blocks, sport, matchVars, fitVars,
                   processed_laps, formVars, apiVars>>

NextLine == ParseLine

SpecLine == InitLine /\ [][NextLine]_vars

----------------------------------------------------------------------------
(* parse_plan_text                                                         *)

\* Longest plan, in lines
MaxLines == 3

PlanLines ==
    {<<>>, <<"4", "x">>, <<"1", "x">>, <<"H", "a", "r", "d", " ", "8", "m">>, <<"E", "a", "s", "y", " ", "2", "m">>, <<"W", "a", "r", "m", " ", "u", "p", " ", "1", "0", "m">>,
     <<"C", "o", "o", "l", " ", "D", "o", "w", "n", " ", "5", "m">>, <<"S", "t", "r", "i", "d", "e", "s">>, <<"S", "w", "i", "m", " ", "0", "k", "m">>, <<"R", "u", "n", " ", "1", ".", "3", "k", "m">>,
     <<"2", "x", " ", "H", "a", "r", "d", " ", "8", "m", ",", " ", "E", "a", "s", "y", " ", "2", "m">>, <<"S", "w", "i", "m", " ", "1", ".", "2", ".", "3", "k", "m">>, <<"#", " ", "H", "a", "r", "d", " ", "8", "m">>}

RECURSIVE PlanTexts(_)
PlanTexts(n) ==
    IF n = 0 THEN {<<>>}
    ELSE PlanTexts(n - 1)
         \cup {Append(t, l) : t \in {x \in PlanTexts(n - 1) : Len(x) = n - 1},
                              l \in PlanLines}

\* r'^(\d+)\s*[xX]' at the start of s: position after the x, 0 if no match
MultiplierEnd(s) ==
    LET q == RunEnd(s, 1, Digits)
        r == RunEnd(s, q, Spaces)
    IN IF q > 1 /\ MatchAtCI(s, r, <<"x">>) THEN r + 1 ELSE 0

\* int(group(1)) of either multiplier pattern
Repetitions(s) == int(SubSeq(s, 1, RunEnd(s, 1, Digits) - 1))

\* re.match(r'^(\d+)\s*[xX]\s*$', line)
IsStandaloneMult(s) ==
    MultiplierEnd(s) > 0 /\ RunEnd(s, MultiplierEnd(s), Spaces) = Len(s) + 1

\* re.match(r'^(\d+)\s*[xX]\s+(.+)', line); the line is stripped, so the
\* white space after the x is followed by the rest of the line.
IsInlineMult(s) ==
    /\ MultiplierEnd(s) > 0
    /\ RunEnd(s, MultiplierEnd(s), Spaces) > MultiplierEnd(s)
    /\ RunEnd(s, MultiplierEnd(s), Spaces) <= Len(s)

rest_of_line(s) == SubSeq(s, RunEnd(s, MultiplierEnd(s), Spaces), Len(s))

\* No line taken for the start of a section
IsSectionHeaderNever(s) == FALSE

\* re.match(r'^(Warm up \d|Cool Down)', next_line, re.IGNORECASE)
IsSectionHeader(s) ==
    \/ MatchAtCI(s, 1, <<"w", "a", "r", "m", " ", "u", "p", " ">>) /\ Len(s) >= 9 /\ s[9] \in Digits
    \/ MatchAtCI(s, 1, <<"c", "o", "o", "l", " ", "d", "o", "w", "n">>)

\* r',\s*(?=[A-Za-z])' at p: position after the separator, 0 if no match
SeparatorEnd(s, p) ==
    LET u == RunEnd(s, p + 1, Spaces)
    IN IF s[p] = "," /\ u <= Len(s) /\ s[u] \in Letters THEN u ELSE 0

\* re.split(r',\s*(?=[A-Za-z])', rest_of_line)
RECURSIVE SplitParts(_)
SplitParts(s) ==
    LET seps == {p \in 1..Len(s) : SeparatorEnd(s, p) > 0}
    IN IF seps = {} THEN <<s>>
       ELSE <<SubSeq(s, 1, Min(seps) - 1)>>
            \o SplitParts(SubSeq(s, SeparatorEnd(s, Min(seps)), Len(s)))

\* Groups written on one line, for the comparison with several lines
\* Most parts of such a group
MaxParts == 2

GroupMultipliers == {<<"1", "x">>, <<"2", "x">>}
GroupParts == {<<"H", "a", "r", "d", " ", "8", "m">>, <<"E", "a", "s", "y", " ", "2", "m">>, <<"S", "t", "r", "i", "d", "e", "s">>, <<"C", "o", "o", "l", " ", "D", "o", "w", "n", " ", "5", "m">>, <<"W", "a", "r", "m", " ", "u", "p", " ", "1", "0", "m">>}
GroupSeparators == {<<",">>, <<",", " ">>}

RECURSIVE PartLists(_)
PartLists(n) ==
    IF n = 0 THEN {<<>>}
    ELSE PartLists(n - 1)
         \cup {Append(t, l) : t \in {x \in PartLists(n - 1) : Len(x) = n - 1},
                              l \in GroupParts}

RECURSIVE Joined(_, _)
Joined(parts, sep) ==
    IF Len(parts) = 1 THEN parts[1]
    ELSE parts[1] \o sep \o Joined(Tail(parts), sep)

\* 'Nx A, B, ...' on one line
InlineForm(mult, parts, sep) == mult \o <<" ">> \o Joined(parts, sep)

\* Plan lines with and without a label in front
LabelPrefixes == {<<>>, <<"M", "a", "i", "n", " ", "S", "e", "t", ":", " ">>, <<"C", "o", "o", "l", " ", "D", "o", "w", "n", ":", " ">>}
LabelBaseLines == {<<"2", "x">>, <<"H", "a", "r", "d", " ", "8", "m">>, <<"2", "x", " ", "H", "a", "r", "d", " ", "8", "m", ",", " ", "E", "a", "s", "y", " ", "2", "m">>}
LabelLines == {<<>>} \cup {p \o l : p \in LabelPrefixes, l \in LabelBaseLines}

\* Every text a plan of the model hands to parse_intervals_icu_line, parsed
\* once: the table only saves evaluating the same call again.
ParsedTexts ==
    PlanLines \cup LabelLines \cup UNION {{SplitParts(rest_of_line(l))[k] :
                               k \in 1..Len(SplitParts(rest_of_line(l)))} :
                          l \in {x \in PlanLines : IsInlineMult(x)}}

ParseTable == [l \in ParsedTexts |-> parse_intervals_icu_line(l)]

ParseOf(l) == ParseTable[l]

\* The filter looking at the duration only
RetainedByDuration(parsed) ==
    parsed.ret # None /\ parsed.ret[1].duration_seconds > 0

\* interval and (interval['duration_seconds'] > 0 or interval.get('target_distance_m'))
Retained(parsed) ==
    /\ parsed.ret # None
    /\ \/ parsed.ret[1].duration_seconds > 0
       \/ Truthy(parsed.ret[1].target_distance_m)

\* The interval with its is_main_set and round_number keys
Block(interval, main, round) ==
    interval @@ [is_main_set |-> main, round_number |-> round]

\* while i < len(lines) and not lines[i].strip(): i += 1   (i is 0-based)
RECURSIVE SkipBlank(_, _)
SkipBlank(ls, j) ==
    IF j < Len(ls) /\ strip(ls[j + 1]) = <<>> THEN SkipBlank(ls, j + 1) ELSE j

\* The loop that collects the body of a standalone group from line j on:
\* where it stops, the intervals it kept, and whether a line raised.
RECURSIVE CollectBody(_, _, _)
CollectBody(ls, j, sub) ==
    IF j >= Len(ls) THEN [i |-> j, sub_intervals |-> sub, raises |-> FALSE]
    ELSE LET next_line == strip(ls[j + 1])
             interval == ParseOf(next_line)
         IN IF next_line = <<>> THEN CollectBody(ls, j + 1, sub)
            ELSE IF IsStandaloneMult(next_line) \/ IsSectionHeader(next_line)
            THEN [i |-> j, sub_intervals |-> sub, raises |-> FALSE]
            ELSE IF interval.raises
            THEN [i |-> j, sub_intervals |-> sub, raises |-> TRUE]
            ELSE CollectBody(ls, j + 1,
                             IF Retained(interval)
                             THEN Append(sub, Block(interval.ret[1], TRUE, None))
                             ELSE sub)

\* The parts kept without the mark of the main set
RECURSIVE CollectPartsUnmarked(_, _, _)
CollectPartsUnmarked(parts, k, sub) ==
    IF k > Len(parts) THEN [sub_intervals |-> sub, raises |-> FALSE]
    ELSE LET interval == ParseOf(parts[k])
         IN IF interval.raises
            THEN [sub_intervals |-> sub, raises |-> TRUE]
            ELSE CollectPartsUnmarked(parts, k + 1,
                              IF Retained(interval)
                              THEN Append(sub, Block(interval.ret[1], FALSE, None))
                              ELSE sub)

\* The parts of an inline group, parsed and filtered the same way
RECURSIVE CollectParts(_, _, _)
CollectParts(parts, k, sub) ==
    IF k > Len(parts) THEN [sub_intervals |-> sub, raises |-> FALSE]
    ELSE LET interval == ParseOf(parts[k])
         IN IF interval.raises
            THEN [sub_intervals |-> sub, raises |-> TRUE]
            ELSE CollectParts(parts, k + 1,
                              IF Retained(interval)
                              THEN Append(sub, Block(interval.ret[1], TRUE, None))
                              ELSE sub)

\* The inline groups of the plans of the model, each split and parsed once:
\* the table only saves evaluating the same line again.
InlineLines ==
    {l \in PlanLines \cup LabelLines
           \cup {InlineForm(m, ps, sep) : m \in GroupMultipliers,
                                          ps \in PartLists(MaxParts) \ {<<>>},
                                          sep \in GroupSeparators} :
        IsInlineMult(l)}

PartsTable ==
    [l \in InlineLines |-> CollectParts(SplitParts(rest_of_line(l)), 1, <<>>)]

PartsOf(l) == PartsTable[l]

\* round_num + 1 if repetitions > 1 else None
RoundNumber(round_num, repetitions) ==
    IF repetitions > 1 THEN Some(round_num + 1) ELSE None

\* The expansion taken line by line: each body line repeated in turn
ExpandByLine(sub, repetitions) ==
    [k \in 1..(repetitions * Len(sub)) |->
        [sub[((k - 1) \div repetitions) + 1] EXCEPT
            !.round_number = RoundNumber((k - 1) % repetitions, repetitions)]]

\* for round_num in range(repetitions): for interval in sub_intervals: ...
Expand(sub, repetitions) ==
    [k \in 1..(repetitions * Len(sub)) |->
        [sub[((k - 1) % Len(sub)) + 1] EXCEPT
            !.round_number = RoundNumber((k - 1) \div Len(sub), repetitions)]]

\* The count of the group read last, whatever was seen before
NumRoundsOfLast(n, repetitions) ==
    IF repetitions > 1 THEN repetitions ELSE n

\* if repetitions > 1: num_rounds = max(num_rounds, repetitions)
NumRounds(n, repetitions) ==
    IF repetitions > 1 /\ repetitions > n THEN repetitions ELSE n

CurrentLine == strip(lines[i + 1])

\* if not line or line.startswith('#')
IsSkipped(s) == IF s = <<>> THEN TRUE ELSE s[1] = "#"

InitParse ==
    /\ pc = "parse"
    /\ lines \in PlanTexts(MaxLines)
    /\ i = 0 /\ planned_blocks = <<>> /\ num_rounds = 0 /\ raised = FALSE /\ ApiIdle
    /\ line = Idle /\ result = Idle
    /\ actual_laps = Idle /\ sport = "" /\ block_index = 0 /\ lap_index = 0
    /\ combined_laps = Idle /\ accumulated_duration = 0
    /\ accumulated_distance = 0 /\ grouped = Idle
    /\ laps = Idle /\ min_duration = 0 /\ lap_i = 0 /\ processed_laps = Idle
    /\ lengths = Idle /\ current_set = Idle /\ current_laps = Idle

parseRest == <<line, result, sport, matchVars, fitVars, processed_laps, formVars,
               apiVars>>

\* Blank line or comment: skipped
SkipLine ==
    /\ pc = "parse" /\ i < Len(lines)
    /\ IsSkipped(CurrentLine)
    /\ i' = i + 1
    /\ UNCHANGED <<pc, lines, planned_blocks, num_rounds, raised, parseRest>>

IsPlanLine == pc = "parse" /\ i < Len(lines) /\ ~IsSkipped(CurrentLine)

\* "4x" on a line of its own, with the lines that follow as its body
StandaloneGroup ==
    /\ IsPlanLine /\ IsStandaloneMult(CurrentLine)
    /\ \E repetitions \in {Repetitions(CurrentLine)},
          body \in {CollectBody(lines, SkipBlank(lines, i + 1), <<>>)} :
          IF body.raises
          THEN /\ raised' = TRUE /\ pc' = "parse_raised"
               /\ UNCHANGED <<i, planned_blocks, num_rounds>>
          ELSE /\ num_rounds' = NumRounds(num_rounds, repetitions)
               /\ i' = body.i
               /\ planned_blocks' =
                      planned_blocks \o Expand(body.sub_intervals, repetitions)
               /\ UNCHANGED <<pc, raised>>
    /\ UNCHANGED <<lines, parseRest>>

\* "4x Hard 8m, Easy 2m" on one line
InlineGroup ==
    /\ IsPlanLine /\ ~IsStandaloneMult(CurrentLine) /\ IsInlineMult(CurrentLine)
    /\ \E repetitions \in {Repetitions(CurrentLine)},
          got \in {PartsOf(CurrentLine)} :
          IF got.raises
          THEN /\ raised' = TRUE /\ pc' = "parse_raised"
               /\ UNCHANGED <<i, planned_blocks, num_rounds>>
          ELSE /\ num_rounds' = NumRounds(num_rounds, repetitions)
               /\ planned_blocks' =
                      planned_blocks \o Expand(got.sub_intervals, repetitions)
               /\ i' = i + 1
               /\ UNCHANGED <<pc, raised>>
    /\ UNCHANGED <<lines, parseRest>>

\* Any other line: one block, or none
RegularLine ==
    /\ IsPlanLine /\ ~IsStandaloneMult(CurrentLine) /\ ~IsInlineMult(CurrentLine)
    /\ \E interval \in {ParseOf(CurrentLine)} :
          IF interval.raises
          THEN /\ raised' = TRUE /\ pc' = "parse_raised"
               /\ UNCHANGED <<i, planned_blocks>>
          ELSE /\ planned_blocks' =
                      IF Retained(interval)
                      THEN Append(planned_blocks, Block(interval.ret[1], FALSE, None))
                      ELSE planned_blocks
               /\ i' = i + 1
               /\ UNCHANGED <<pc, raised>>
    /\ UNCHANGED <<lines, num_rounds, parseRest>>

\* return planned_blocks, num_rounds
ParseReturn ==
    /\ pc = "parse" /\ i >= Len(lines)
    /\ pc' = "parse_done"
    /\ UNCHANGED <<lines, i, planned_blocks, num_rounds, raised, parseRest>>

NextParse ==
    \/ SkipLine
    \/ StandaloneGroup
    \/ InlineGroup
    \/ RegularLine
    \/ ParseReturn

SpecParse == InitParse /\ [][NextParse]_vars

----------------------------------------------------------------------------
(* group_laps_by_planned                                                   *)

\* Longest plan, in blocks, and longest session, in laps
MaxBlocks == 2
MaxLaps == 4

\* tolerance = 15  # meters
SwimTolerance == 15

\* Planned blocks the matcher is run on: the duration and distance targets
\* parse_plan_text can emit (a duration, a distance, both, a distance of 0)
MatchBlocks ==
    {[duration_seconds |-> 100, target_distance_m |-> None],
     [duration_seconds |-> 0, target_distance_m |-> Some(400)],
     [duration_seconds |-> 60, target_distance_m |-> Some(0)],
     [duration_seconds |-> 100, target_distance_m |-> Some(120)]}

\* Recorded laps: duration in seconds, distance in metres, and the heart
\* rate, cadence and power the lap reports (a rest reports none, and a lap
\* may report an average heart rate of 0)
LapKinds ==
    {[duration_seconds |-> 90, distance_m |-> 100, avg_hr |-> Some(150),
      max_hr |-> Some(160), cadence |-> Some(80), avg_power |-> Some(200)],
     [duration_seconds |-> 10, distance_m |-> 105, avg_hr |-> Some(0),
      max_hr |-> Some(171), cadence |-> Some(91), avg_power |-> None],
     [duration_seconds |-> 30, distance_m |-> 0, avg_hr |-> None,
      max_hr |-> None, cadence |-> None, avg_power |-> None]}

SeqsUpTo(S, n) == UNION {[1..m -> S] : m \in 0..n}

\* The laps as the normalizer numbers them: lap_number is the position.
Numbered(ls) ==
    [k \in 1..Len(ls) |->
        [lap_number |-> k] @@ ls[k]]

RECURSIVE SumOver(_, _)
SumOver(s, field) ==
    IF s = <<>> THEN 0 ELSE s[1][field] + SumOver(Tail(s), field)

\* planned.get('duration_seconds', 0), planned.get('target_distance_m', 0)
planned == planned_blocks[block_index + 1]
planned_duration == planned.duration_seconds
planned_distance == planned.target_distance_m

\* The same test with the tolerance left out
DistanceReachedExact(acc, target) == acc >= target

\* accumulated_distance >= planned_distance - tolerance
DistanceReached(acc, target) == acc >= target - SwimTolerance

\* The same test with a tolerance of half the target
DurationReachedHalf(acc, target) == 2 * acc >= target

\* The duration target taken without a tolerance
DurationReachedInFull(acc, target) == acc >= target

\* accumulated_duration >= planned_duration - max(10, planned_duration * 0.15),
\* both sides times 20 to stay in the integers
DurationReached(acc, target) ==
    20 * acc >= 20 * target - (IF 3 * target > 200 THEN 3 * target ELSE 200)

\* The index left where it is
NextLapIndexStuck(idx) == idx

\* lap_index += 1
NextLapIndex(idx) == idx + 1

\* The aggregate built without looking whether there are laps
CombinedUnguarded(ls) ==
    Some([sport |-> sport,
          duration_seconds |-> SumOver(ls, "duration_seconds"),
          distance_m |-> SumOver(ls, "distance_m"),
          num_laps_combined |-> Len(ls)])

RECURSIVE SumSeq(_)
SumSeq(s) == IF s = <<>> THEN 0 ELSE s[1] + SumSeq(Tail(s))

\* int(sum(values) / len(values)) if values else None
IntMean(values) ==
    IF values = <<>> THEN None ELSE Some(SumSeq(values) \div Len(values))

\* A quotient of two integers, kept exact
Ratio(n, d) == [num |-> n, den |-> d]

\* [l[field] for l in combined_laps if l.get(field)]
RECURSIVE Values(_, _)
Values(ls, field) ==
    IF ls = <<>> THEN <<>>
    ELSE (IF Truthy(ls[1][field]) THEN ls[1][field] ELSE <<>>)
         \o Values(Tail(ls), field)

\* The maximum heart rate of the first lap only
MaxHrOfFirst(ls) == IF Truthy(ls[1].max_hr) THEN ls[1].max_hr[1] ELSE 0

\* max(l.get('max_hr', 0) or 0 for l in combined_laps)
max_hr(ls) ==
    Max({IF Truthy(ls[k].max_hr) THEN ls[k].max_hr[1] ELSE 0 : k \in 1..Len(ls)})

\* 'combined' of a group: None without laps, else the aggregate
Combined(ls) ==
    IF ls = <<>> THEN None
    ELSE Some([sport |-> sport,
               duration_seconds |-> SumOver(ls, "duration_seconds"),
               distance_m |-> SumOver(ls, "distance_m"),
               avg_hr |-> IF Values(ls, "avg_hr") = <<>> THEN None
                          ELSE Some(Ratio(SumSeq(Values(ls, "avg_hr")),
                                          Len(Values(ls, "avg_hr")))),
               max_hr |-> max_hr(ls),
               cadence |-> IntMean(Values(ls, "cadence")),
               avg_power |-> IntMean(Values(ls, "avg_power")),
               num_laps_combined |-> Len(ls)])

InitMatch ==
    /\ pc = "for"
    /\ planned_blocks \in SeqsUpTo(MatchBlocks, MaxBlocks)
    /\ actual_laps \in {Numbered(ls) : ls \in SeqsUpTo(LapKinds, MaxLaps)}
    /\ sport \in {"running", "swimming"}
    /\ block_index = 0 /\ lap_index = 0 /\ grouped = <<>>
    /\ combined_laps = <<>> /\ accumulated_duration = 0
    /\ accumulated_distance = 0
    /\ line = Idle /\ result = Idle
    /\ lines = Idle /\ i = 0 /\ num_rounds = 0 /\ raised = FALSE /\ ApiIdle
    /\ laps = Idle /\ min_duration = 0 /\ lap_i = 0 /\ processed_laps = Idle
    /\ lengths = Idle /\ current_set = Idle /\ current_laps = Idle

matchRest == <<line, result, parseVars, planned_blocks, actual_laps, sport,
               fitVars, processed_laps, formVars, apiVars>>

\* The head of the loop with the distance branch taken for every sport
ForNextAnySport ==
    /\ pc = "for" /\ block_index < Len(planned_blocks)
    /\ combined_laps' = <<>>
    /\ accumulated_duration' = 0
    /\ accumulated_distance' = 0
    /\ pc' = IF Truthy(planned_distance) THEN "swim_loop"
             ELSE IF planned_duration # 0 THEN "dur_loop"
             ELSE "fallback"
    /\ UNCHANGED <<block_index, lap_index, grouped, matchRest>>

\* for planned in planned_blocks: reset the accumulators, pick the branch
ForNext ==
    /\ pc = "for" /\ block_index < Len(planned_blocks)
    /\ combined_laps' = <<>>
    /\ accumulated_duration' = 0
    /\ accumulated_distance' = 0
    /\ pc' = IF sport = "swimming" /\ Truthy(planned_distance) THEN "swim_loop"
             ELSE IF planned_duration # 0 THEN "dur_loop"
             ELSE "fallback"
    /\ UNCHANGED <<block_index, lap_index, grouped, matchRest>>

\* One turn of the while loop that matches by distance
SwimIter ==
    /\ pc = "swim_loop"
    /\ IF lap_index >= Len(actual_laps)
       THEN /\ pc' = "emit"
            /\ UNCHANGED <<lap_index, combined_laps, accumulated_duration,
                           accumulated_distance>>
       ELSE IF accumulated_distance > 0
               /\ DistanceReached(accumulated_distance, planned_distance[1])
       THEN /\ pc' = "emit"
            /\ UNCHANGED <<lap_index, combined_laps, accumulated_duration,
                           accumulated_distance>>
       ELSE /\ combined_laps' = Append(combined_laps, actual_laps[lap_index + 1])
            /\ accumulated_distance' =
                   accumulated_distance + actual_laps[lap_index + 1].distance_m
            /\ accumulated_duration' =
                   accumulated_duration + actual_laps[lap_index + 1].duration_seconds
            /\ lap_index' = NextLapIndex(lap_index)
            /\ pc' = IF DistanceReached(accumulated_distance', planned_distance[1])
                     THEN "emit" ELSE "swim_loop"
    /\ UNCHANGED <<block_index, grouped, matchRest>>

\* One turn of the while loop that matches by duration
DurIter ==
    /\ pc = "dur_loop"
    /\ IF lap_index >= Len(actual_laps)
       THEN /\ pc' = "emit"
            /\ UNCHANGED <<lap_index, combined_laps, accumulated_duration>>
       ELSE IF accumulated_duration > 0
               /\ DurationReached(accumulated_duration, planned_duration)
       THEN /\ pc' = "emit"
            /\ UNCHANGED <<lap_index, combined_laps, accumulated_duration>>
       ELSE /\ combined_laps' = Append(combined_laps, actual_laps[lap_index + 1])
            /\ accumulated_duration' =
                   accumulated_duration + actual_laps[lap_index + 1].duration_seconds
            /\ lap_index' = NextLapIndex(lap_index)
            /\ pc' = IF DurationReached(accumulated_duration', planned_duration)
                     THEN "emit" ELSE "dur_loop"
    /\ UNCHANGED <<block_index, accumulated_distance, grouped, matchRest>>

\* Fallback: take one lap
Fallback ==
    /\ pc = "fallback"
    /\ IF lap_index < Len(actual_laps)
       THEN /\ combined_laps' = Append(combined_laps, actual_laps[lap_index + 1])
            /\ lap_index' = NextLapIndex(lap_index)
       ELSE UNCHANGED <<lap_index, combined_laps>>
    /\ pc' = "emit"
    /\ UNCHANGED <<block_index, accumulated_duration, accumulated_distance,
                   grouped, matchRest>>

\* grouped.append({'planned': ..., 'actual_laps': ..., 'combined': ...})
Emit ==
    /\ pc = "emit"
    /\ grouped' = Append(grouped, [planned |-> planned,
                                   actual_laps |-> combined_laps,
                                   combined |-> Combined(combined_laps)])
    /\ block_index' = block_index + 1
    /\ pc' = "for"
    /\ UNCHANGED <<lap_index, combined_laps, accumulated_duration,
                   accumulated_distance, matchRest>>

\* return grouped
MatchReturn ==
    /\ pc = "for" /\ block_index >= Len(planned_blocks)
    /\ pc' = "match_done"
    /\ UNCHANGED <<matchVars, matchRest>>

NextMatch ==
    \/ ForNext
    \/ SwimIter
    \/ DurIter
    \/ Fallback
    \/ Emit
    \/ MatchReturn

SpecMatch == InitMatch /\ [][NextMatch]_vars

----------------------------------------------------------------------------
(* Properties of group_laps_by_planned                                     *)

Matching == pc \in {"swim_loop", "dur_loop", "fallback", "emit"}

\* Number of laps in the first k groups
RECURSIVE Consumed(_)
Consumed(k) == IF k = 0 THEN 0 ELSE Consumed(k - 1) + Len(grouped[k].actual_laps)

\* The first k groups' actual_laps, one after the other
RECURSIVE Concat(_)
Concat(k) == IF k = 0 THEN <<>> ELSE Concat(k - 1) \o grouped[k].actual_laps

\* C1: every group holds the run of input laps that starts where the group
\* before it ended, the laps being taken in input order by an index that
\* never passes the number of laps; so no lap is in two groups or twice in one.
C1_ForwardContiguous ==
    /\ lap_index \in 0..Len(actual_laps)
    /\ \A k \in 1..Len(grouped) :
          grouped[k].actual_laps =
              SubSeq(actual_laps, Consumed(k - 1) + 1, Consumed(k))
    /\ Matching =>
          combined_laps = SubSeq(actual_laps, Consumed(Len(grouped)) + 1, lap_index)
    /\ ~Matching => lap_index = Consumed(Len(grouped))

C1_Witness ==
    /\ pc = "match_done" /\ Len(grouped) = 2
    /\ Len(grouped[1].actual_laps) >= 2
    /\ Len(grouped[2].actual_laps) >= 1

\* A block that is matched by distance, and the plans of one kind
DistanceMatched(b) == sport = "swimming" /\ Truthy(b.target_distance_m)
NoneByDistance == \A k \in 1..Len(planned_blocks) : ~DistanceMatched(planned_blocks[k])
AllByDistance ==
    /\ planned_blocks # <<>>
    /\ \A k \in 1..Len(planned_blocks) : DistanceMatched(planned_blocks[k])

RECURSIVE SumDistanceTargets(_)
SumDistanceTargets(bs) ==
    IF bs = <<>> THEN 0 ELSE bs[1].target_distance_m[1] + SumDistanceTargets(Tail(bs))

\* The plan's total target covers the session
TargetCovers ==
    \/ /\ NoneByDistance
       /\ SumOver(planned_blocks, "duration_seconds")
              >= SumOver(actual_laps, "duration_seconds")
    \/ /\ AllByDistance
       /\ SumDistanceTargets(planned_blocks) >= SumOver(actual_laps, "distance_m")

\* C2 as stated: when the plan's total target covers the session, the
\* groups' actual_laps, in order, make up the whole input lap sequence.
C2_CoveredMeansAllConsumed ==
    (pc = "match_done" /\ TargetCovers) => Concat(Len(grouped)) = actual_laps

\* 20 times the duration at which a block stops taking laps (0 for a block
\* without a duration target, which takes one lap)
StopDuration20(b) ==
    IF b.duration_seconds = 0 THEN 0
    ELSE 20 * b.duration_seconds
         - (IF 3 * b.duration_seconds > 200 THEN 3 * b.duration_seconds ELSE 200)

RECURSIVE SumStopDuration20(_)
SumStopDuration20(bs) ==
    IF bs = <<>> THEN 0 ELSE StopDuration20(bs[1]) + SumStopDuration20(Tail(bs))

\* The targets less their tolerances cover the session, every lap counting
ThresholdsCover ==
    \/ /\ NoneByDistance
       /\ \A k \in 1..Len(actual_laps) : actual_laps[k].duration_seconds > 0
       /\ SumStopDuration20(planned_blocks)
              >= 20 * SumOver(actual_laps, "duration_seconds")
    \/ /\ AllByDistance
       /\ \A k \in 1..Len(actual_laps) : actual_laps[k].distance_m > 0
       /\ SumDistanceTargets(planned_blocks) - SwimTolerance * Len(planned_blocks)
              >= SumOver(actual_laps, "distance_m")

\* C2, amended: the groups' actual_laps, in order, are always the first
\* lap_index laps of the input; they are all of it when the targets less
\* their tolerances cover the session and every lap has a positive measure.
C2_ThresholdsCoverAllConsumed ==
    /\ ~Matching => Concat(Len(grouped)) = SubSeq(actual_laps, 1, lap_index)
    /\ (pc = "match_done" /\ ThresholdsCover) => Concat(Len(grouped)) = actual_laps

C2_Witness ==
    /\ pc = "match_done" /\ ThresholdsCover
    /\ Len(planned_blocks) = 2 /\ Len(actual_laps) >= 3
    /\ Len(grouped[1].actual_laps) >= 1 /\ Len(grouped[2].actual_laps) >= 2

\* Distance of the m laps after the first `from`
RECURSIVE DistanceOfRun(_, _)
DistanceOfRun(from, m) ==
    IF m = 0 THEN 0
    ELSE DistanceOfRun(from, m - 1) + actual_laps[from + m].distance_m

\* Group k is the shortest non-empty run of the laps left whose distance is
\* at least target - 15, or all the laps left when none is
ShortestRunByDistance(k, target) ==
    LET from == Consumed(k - 1)
        n == Len(grouped[k].actual_laps)
        left == Len(actual_laps) - from
    IN /\ n <= left
       /\ left > 0 => n >= 1
       /\ \A m \in 1..(n - 1) : DistanceOfRun(from, m) < target - SwimTolerance
       /\ n < left => DistanceOfRun(from, n) >= target - SwimTolerance

\* The example of the spec: 400 m against laps of 100/100/100/105 m
SwimExample ==
    /\ sport = "swimming" /\ Len(planned_blocks) >= 1 /\ Len(actual_laps) = 4
    /\ planned_blocks[1].target_distance_m = Some(400)
    /\ [k \in 1..4 |-> actual_laps[k].distance_m] = <<100, 100, 100, 105>>

\* C3 as stated: for swimming, a block with a distance target gets the
\* shortest non-empty run of laps reaching target - 15 (or all that is left).
C3_AnyDistanceTarget ==
    /\ \A k \in 1..Len(grouped) :
          (sport = "swimming" /\ grouped[k].planned.target_distance_m # None)
              => ShortestRunByDistance(k, grouped[k].planned.target_distance_m[1])
    /\ (SwimExample /\ pc = "match_done") => Len(grouped[1].actual_laps) = 4

\* C3, amended: for swimming, a block with a distance target other than 0
\* gets the shortest non-empty run of laps reaching target - 15 (or all that
\* is left); 400 m against 100/100/100/105 m gives a group of 4 laps.
C3_NonZeroDistanceTarget ==
    /\ \A k \in 1..Len(grouped) :
          (sport = "swimming" /\ Truthy(grouped[k].planned.target_distance_m))
              => ShortestRunByDistance(k, grouped[k].planned.target_distance_m[1])
    /\ (SwimExample /\ Len(grouped) >= 1) => Len(grouped[1].actual_laps) = 4

C3_Witness ==
    /\ pc = "match_done" /\ SwimExample
    /\ Len(grouped[1].actual_laps) = 4

\* C4: one group per planned block, in plan order; a group is empty, with a
\* null combined, exactly when no lap was left when its block began, so the
\* empty groups come last.
C4_OneGroupPerBlock ==
    /\ Len(grouped) <= Len(planned_blocks)
    /\ pc = "match_done" => Len(grouped) = Len(planned_blocks)
    /\ \A k \in 1..Len(grouped) :
          /\ grouped[k].planned = planned_blocks[k]
          /\ grouped[k].actual_laps = <<>> <=> grouped[k].combined = None
          /\ grouped[k].actual_laps = <<>> <=> Consumed(k - 1) = Len(actual_laps)
          /\ \A j \in 1..(k - 1) :
                grouped[j].actual_laps = <<>> => grouped[k].actual_laps = <<>>

C4_Witness ==
    /\ pc = "match_done" /\ Len(grouped) = 2 /\ actual_laps # <<>>
    /\ grouped[1].actual_laps # <<>> /\ grouped[1].combined # None
    /\ grouped[2].actual_laps = <<>> /\ grouped[2].combined = None

----------------------------------------------------------------------------
(* Properties of parse_plan_text                                           *)

\* A step of the outer loop on a plan line that does not raise
PlanStep == IsPlanLine /\ pc' = "parse"
StandaloneStep == PlanStep /\ IsStandaloneMult(CurrentLine)
InlineStep == PlanStep /\ ~IsStandaloneMult(CurrentLine) /\ IsInlineMult(CurrentLine)
RegularStep == PlanStep /\ ~IsStandaloneMult(CurrentLine) /\ ~IsInlineMult(CurrentLine)

\* The blocks a step adds
NewBlocks == SubSeq(planned_blocks', Len(planned_blocks) + 1, Len(planned_blocks'))
KeepsOldBlocks == SubSeq(planned_blocks', 1, Len(planned_blocks)) = planned_blocks

\* The line (1-based) that ends the body of the group opened at line m: the
\* first later line that is a standalone multiplier, "Warm up <digit>" or
\* "Cool Down"; one past the last line if there is none
BodyEnd(m) ==
    LET stops == {j \in (m + 1)..Len(lines) :
                     IsStandaloneMult(strip(lines[j])) \/ IsSectionHeader(strip(lines[j]))}
    IN IF stops = {} THEN Len(lines) + 1 ELSE Min(stops)

RECURSIVE NonBlank(_)
NonBlank(ls) ==
    IF ls = <<>> THEN <<>>
    ELSE IF strip(ls[1]) = <<>> THEN NonBlank(Tail(ls))
    ELSE <<strip(ls[1])>> \o NonBlank(Tail(ls))

\* The body of the group opened at line m, parsed line by line
BodyParsed(m) ==
    LET body == NonBlank(SubSeq(lines, m + 1, BodyEnd(m) - 1))
    IN [k \in 1..Len(body) |-> ParseOf(body[k])]

PartsParsed(s) ==
    LET parts == SplitParts(rest_of_line(s))
    IN [k \in 1..Len(parts) |-> ParseOf(parts[k])]

RECURSIVE RetainedOf(_)
RetainedOf(ps) ==
    IF ps = <<>> THEN <<>>
    ELSE IF Retained(ps[1]) THEN <<ps[1].ret[1]>> \o RetainedOf(Tail(ps))
    ELSE RetainedOf(Tail(ps))

ExamplePlan == <<<<"4", "x">>, <<"H", "a", "r", "d", " ", "8", "m">>, <<"E", "a", "s", "y", " ", "2", "m">>>>

\* What a step must do for C5
GroupExpansion ==
    /\ StandaloneStep =>
          LET n == Repetitions(CurrentLine)
              body == RetainedOf(BodyParsed(i + 1))
              k == Len(body)
          IN /\ KeepsOldBlocks
             /\ Len(NewBlocks) = n * k
             /\ \A r \in 1..n : \A j \in 1..k :
                   NewBlocks[(r - 1) * k + j] =
                       body[j] @@ [is_main_set |-> TRUE,
                                   round_number |-> IF n > 1 THEN Some(r) ELSE None]
    /\ RegularStep =>
          /\ KeepsOldBlocks
          /\ \A k \in 1..Len(NewBlocks) :
                NewBlocks[k].is_main_set = FALSE /\ NewBlocks[k].round_number = None
    /\ (lines = ExamplePlan /\ pc' = "parse_done") =>
          /\ Len(planned_blocks') = 8
          /\ \A k \in 1..8 :
                /\ planned_blocks'[k].raw_text =
                       IF k % 2 = 1 THEN <<"H", "a", "r", "d", " ", "8", "m">> ELSE <<"E", "a", "s", "y", " ", "2", "m">>
                /\ planned_blocks'[k].round_number = Some((k + 1) \div 2)
                /\ planned_blocks'[k].is_main_set

\* C5: "Nx" followed by a body of k retained lines gives N*k blocks, the
\* body round after round, each block with is_main_set true and its 1-based
\* round (no round when N = 1); a line outside any group gives a block with
\* is_main_set false; "4x / Hard 8m / Easy 2m" gives Hard, Easy four times.
C5_RepetitionExpansion == [][GroupExpansion]_vars

C5_Witness ==
    /\ pc = "parse_done" /\ lines = ExamplePlan /\ Len(planned_blocks) = 8
    /\ planned_blocks[7].round_number = Some(4)

\* The retention rule as C8 states it, and with a zero distance left out
Keeps(rule, parsed) ==
    /\ parsed.ret # None
    /\ \/ parsed.ret[1].duration_seconds > 0
       \/ IF rule = "non-null"
          THEN parsed.ret[1].target_distance_m # None
          ELSE Truthy(parsed.ret[1].target_distance_m)

KeptCount(rule, ps) == Cardinality({k \in 1..Len(ps) : Keeps(rule, ps[k])})

\* What a step must do for C8 under a retention rule
RetentionStep(rule) ==
    /\ \A k \in 1..Len(planned_blocks') :
          \/ planned_blocks'[k].duration_seconds > 0
          \/ planned_blocks'[k].target_distance_m # None
    /\ RegularStep =>
          Len(NewBlocks) = KeptCount(rule, <<ParseOf(CurrentLine)>>)
    /\ StandaloneStep =>
          Len(NewBlocks) = Repetitions(CurrentLine) * KeptCount(rule, BodyParsed(i + 1))
    /\ InlineStep =>
          Len(NewBlocks) = Repetitions(CurrentLine) * KeptCount(rule, PartsParsed(CurrentLine))

\* C8 as stated: every block has a positive duration or a distance target,
\* and a parsed line is retained exactly when its extraction gives a positive
\* duration or a non-null distance target.
C8_RetainedIffNonNull == [][RetentionStep("non-null")]_vars

\* C8, amended: every block has a positive duration or a distance target,
\* and a parsed line is retained exactly when its extraction gives a positive
\* duration or a distance target that is neither null nor 0; for regular
\* lines, group body lines and inline parts alike.
C8_RetainedIffNonZero == [][RetentionStep("non-zero")]_vars

C8_Witness ==
    /\ pc = "parse_done"
    /\ lines = <<<<"S", "w", "i", "m", " ", "0", "k", "m">>, <<"R", "u", "n", " ", "1", ".", "3", "k", "m">>, <<"S", "t", "r", "i", "d", "e", "s">>>>
    /\ Len(planned_blocks) = 1
    /\ planned_blocks[1].duration_seconds = 0
    /\ planned_blocks[1].target_distance_m = Some(1300)

\* C9: parse_plan_text returns for every plan text and never raises.
C9_NeverRaises == ~raised /\ pc # "parse_raised"

----------------------------------------------------------------------------
(* Properties of parse_intervals_icu_line                                  *)

Returned == pc = "line_done" /\ ~result.raises /\ result.ret # None

\* The MM:SS token at t lies after a "(" with no ")" before it
AfterOpenParen(s, t) ==
    /\ \E k \in 1..(t - 1) : s[k] = "("
    /\ \A k \in 1..(t - 1) : s[k] # ")"

\* C6: the example line has a duration of 480 s, and no MM:SS token that
\* lies after an opening parenthesis with no closing one before it is taken
\* as the duration: with no minute or second token the duration is then that
\* of an MM:SS token outside parentheses, or 0.
C6_PaceIsNotDuration ==
    Returned =>
        LET s == result.ret[1].raw_text
        IN /\ line = ExampleLine => result.ret[1].duration_seconds = 480
           /\ DurationSource(s) = "clock" => ~AfterOpenParen(s, TimeToken(s))
           /\ (/\ MinutesToken(s) = 0 /\ SecondsToken(s) = 0
               /\ \A t \in 1..Len(s) : TimeTokenAt(s, t) => AfterOpenParen(s, t))
                 => result.ret[1].duration_seconds = 0

C6_Witness ==
    /\ Returned
    /\ \E t \in 1..Len(line) : TimeTokenAt(line, t) /\ AfterOpenParen(line, t)
    /\ MinutesToken(line) = 0 /\ SecondsToken(line) = 0
    /\ result.ret[1].duration_seconds = 0

\* Positions where a run of digits and dots is followed by "km"
KmTokens(s) ==
    {p \in 1..Len(s) :
        /\ StartOrSpace(s, p) \/ s[p - 1] \notin DigitDot
        /\ RunEnd(s, p, DigitDot) > p
        /\ MatchAtCI(s, RunEnd(s, p, DigitDot), <<"k", "m">>)}

\* C7: when the line has a "<float>km" token the distance target is that
\* value times 1000, whatever "<int>m" tokens the line has; the example line
\* has a distance target of 1300 m and a pace range.
C7_KmTokenGivesDistance ==
    Returned =>
        LET s == result.ret[1].raw_text
        IN /\ KmTokens(s) # {} =>
                 LET p == Min(KmTokens(s))
                     g == SubSeq(s, p, RunEnd(s, p, DigitDot) - 1)
                 IN result.ret[1].target_distance_m = Some(FloatTimes1000(g))
           /\ line = ExampleLine =>
                 /\ result.ret[1].target_distance_m = Some(1300)
                 /\ result.ret[1].pace_range # None

----------------------------------------------------------------------------
(* process_fit_laps and process_form_lengths: raw laps to normalized laps  *)

MaxRaw == 3

\* Raw FIT laps: elapsed time, distance and number of lengths
FitLapKinds ==
    {[total_elapsed_time |-> 2, total_distance |-> 10, num_lengths |-> 1],
     [total_elapsed_time |-> 4, total_distance |-> 0, num_lengths |-> 0],
     [total_elapsed_time |-> 60, total_distance |-> 100, num_lengths |-> 4]}

\* Rows of a FORM export: "Set #", "Set", "Length (m)", move and rest time,
\* stroke count, heart rate and SWOLF; a row is a rest when its stroke is
\* REST or its length is 0
FormLengthKinds ==
    {[set_number |-> 1, set_description |-> "4x25", distance_m |-> 25,
      move_time |-> 20, rest_time |-> 0, is_rest |-> FALSE,
      stroke_count |-> 10, avg_hr |-> Some(140), swolf |-> 30],
     [set_number |-> 2, set_description |-> "4x25", distance_m |-> 25,
      move_time |-> 22, rest_time |-> 5, is_rest |-> FALSE,
      stroke_count |-> 12, avg_hr |-> None, swolf |-> 35],
     [set_number |-> 2, set_description |-> "100 kick", distance_m |-> 25,
      move_time |-> 30, rest_time |-> 0, is_rest |-> FALSE,
      stroke_count |-> 0, avg_hr |-> Some(151), swolf |-> 0],
     [set_number |-> 0, set_description |-> "", distance_m |-> 0,
      move_time |-> 0, rest_time |-> 30, is_rest |-> TRUE,
      stroke_count |-> 0, avg_hr |-> None, swolf |-> 0],
     [set_number |-> 1, set_description |-> "4x25", distance_m |-> 25,
      move_time |-> 0, rest_time |-> 2, is_rest |-> TRUE,
      stroke_count |-> 3, avg_hr |-> Some(100), swolf |-> 9]}

\* dict.get(key, default)
Get(rec, key, default) == IF key \in DOMAIN rec THEN rec[key] ELSE default

\* if sport != 'swimming' and total_elapsed_time < min_duration: continue
\* if sport == 'swimming' and total_elapsed_time < 3: continue
FitSkipped(lap) ==
    LET total_elapsed_time == Get(lap, "total_elapsed_time", 0)
    IN IF sport # "swimming" THEN total_elapsed_time < min_duration
       ELSE total_elapsed_time < 3

\* processed_lap = {'lap_number': len(processed_laps) + 1, ...}
processed_lap(lap, index) ==
    LET total_distance == Get(lap, "total_distance", 0)
        num_lengths == Get(lap, "num_lengths", 0)
    IN [lap_number |-> Len(processed_laps) + 1,
        original_lap_number |-> index + 1,
        sport |-> sport,
        duration_seconds |-> Get(lap, "total_elapsed_time", 0),
        distance_m |-> total_distance,
        num_lengths |-> num_lengths,
        is_rest |-> (total_distance = 0
                       \/ (sport = "swimming" /\ num_lengths = 0))]

\* active_lengths = [l for l in lengths if not l['is_rest']]
RECURSIVE active_lengths(_)
active_lengths(ls) ==
    IF ls = <<>> THEN <<>>
    ELSE IF ls[1].is_rest THEN active_lengths(Tail(ls))
    ELSE <<ls[1]>> \o active_lengths(Tail(ls))

RECURSIVE SumField(_, _)
SumField(ls, f) == IF ls = <<>> THEN 0 ELSE ls[1][f] + SumField(Tail(ls), f)

\* [l['avg_hr'] for l in active_lengths if l['avg_hr']]
RECURSIVE hr_values(_)
hr_values(ls) ==
    IF ls = <<>> THEN <<>>
    ELSE (IF Truthy(ls[1].avg_hr) THEN ls[1].avg_hr ELSE <<>>) \o hr_values(Tail(ls))

\* [l['swolf'] for l in active_lengths if l['swolf']]
RECURSIVE swolf_values(_)
swolf_values(ls) ==
    IF ls = <<>> THEN <<>>
    ELSE (IF ls[1].swolf # 0 THEN <<ls[1].swolf>> ELSE <<>>) \o swolf_values(Tail(ls))

\* The keys _combine_form_lengths reads with l[key]; a list with a record
\* that lacks one of them raises KeyError
LengthKeys ==
    {"set_number", "set_description", "distance_m", "move_time", "rest_time",
     "is_rest", "stroke_count", "avg_hr", "swolf"}
CombineRaises(ls) == \E k \in 1..Len(ls) : ~(LengthKeys \subseteq DOMAIN ls[k])

\* _combine_form_lengths(lengths, pool_length) for a non-empty list
_combine_form_lengths(ls) ==
    LET first == ls[1]
        total_distance == SumField(ls, "distance_m")
        total_move_time == SumField(ls, "move_time")
        total_rest_time == SumField(ls, "rest_time")
    IN [lap_number |-> first.set_number,
        avg_hr |-> IntMean(hr_values(active_lengths(ls))),
        swolf |-> IntMean(swolf_values(active_lengths(ls))),
        total_strokes |-> SumField(active_lengths(ls), "stroke_count"),
        set_description |-> first.set_description,
        duration_seconds |-> total_move_time + total_rest_time,
        move_time |-> total_move_time,
        rest_time |-> total_rest_time,
        distance_m |-> total_distance,
        num_lengths |-> Len(active_lengths(ls)),
        is_rest |-> (total_distance = 0),
        source |-> "FORM"]

InitNorm ==
    /\ pc \in {"fit_loop", "form_start"}
    /\ IF pc = "fit_loop"
       THEN /\ laps \in SeqsUpTo(FitLapKinds, MaxRaw)
            /\ sport \in {"running", "swimming"}
            /\ min_duration \in {3, 5}
            /\ lengths = Idle
       ELSE /\ lengths \in SeqsUpTo(FormLengthKinds, MaxRaw)
            /\ laps = Idle /\ sport = "" /\ min_duration = 0
    /\ lap_i = 0 /\ processed_laps = <<>>
    /\ current_set = None /\ current_laps = <<>>
    /\ line = Idle /\ result = Idle
    /\ lines = Idle /\ i = 0 /\ planned_blocks = Idle /\ num_rounds = 0
    /\ raised = FALSE /\ ApiIdle
    /\ actual_laps = Idle /\ block_index = 0 /\ lap_index = 0
    /\ combined_laps = Idle /\ accumulated_duration = 0
    /\ accumulated_distance = 0 /\ grouped = Idle

normRest == <<line, result, lines, i, num_rounds, planned_blocks, matchVars,
              sport, laps, min_duration, lengths, apiVars>>

\* One iteration of "for i, lap in enumerate(laps)"
FitLap ==
    /\ pc = "fit_loop" /\ lap_i < Len(laps)
    /\ processed_laps' =
          IF FitSkipped(laps[lap_i + 1]) THEN processed_laps
          ELSE Append(processed_laps, processed_lap(laps[lap_i + 1], lap_i))
    /\ lap_i' = lap_i + 1
    /\ UNCHANGED <<pc, raised, current_set, current_laps, normRest>>

\* return processed_laps
FitReturn ==
    /\ pc = "fit_loop" /\ lap_i = Len(laps)
    /\ pc' = "norm_done"
    /\ UNCHANGED <<lap_i, raised, processed_laps, current_set, current_laps,
                   normRest>>

\* if not lengths: return []
FormStart ==
    /\ pc = "form_start"
    /\ pc' = IF lengths = <<>> THEN "norm_done" ELSE "form_loop"
    /\ UNCHANGED <<lap_i, raised, processed_laps, current_set, current_laps,
                   normRest>>

\* One iteration of "for length in lengths"; a KeyError in
\* _combine_form_lengths leaves the function
FormLength ==
    /\ pc = "form_loop" /\ lap_i < Len(lengths)
    /\ LET length == lengths[lap_i + 1]
           set_desc == length.set_description
           flush == Some(set_desc) # current_set /\ current_laps # <<>>
       IN IF flush /\ CombineRaises(current_laps)
          THEN /\ raised' = TRUE /\ pc' = "norm_raised"
               /\ UNCHANGED <<lap_i, processed_laps, current_set, current_laps>>
          ELSE /\ processed_laps' =
                     IF flush
                     THEN Append(processed_laps, _combine_form_lengths(current_laps))
                     ELSE processed_laps
               /\ current_laps' =
                     Append(IF flush THEN <<>> ELSE current_laps, length)
               /\ current_set' = Some(set_desc)
               /\ lap_i' = lap_i + 1
               /\ UNCHANGED <<pc, raised>>
    /\ UNCHANGED normRest

\* The last set, then return processed_laps
FormReturn ==
    /\ pc = "form_loop" /\ lap_i = Len(lengths)
    /\ IF current_laps # <<>> /\ CombineRaises(current_laps)
       THEN /\ raised' = TRUE /\ pc' = "norm_raised"
            /\ UNCHANGED processed_laps
       ELSE /\ processed_laps' =
                  IF current_laps # <<>>
                  THEN Append(processed_laps, _combine_form_lengths(current_laps))
                  ELSE processed_laps
            /\ pc' = "norm_done"
            /\ UNCHANGED raised
    /\ UNCHANGED <<lap_i, current_set, current_laps, normRest>>

NextNorm == FitLap \/ FitReturn \/ FormStart \/ FormLength \/ FormReturn

SpecNorm == InitNorm /\ [][NextNorm]_vars

\* C10: the lap_number of the k-th normalized lap is k, for laps from
\* process_fit_laps and for merged laps from process_form_lengths alike.
C10_LapNumbersAreOneToN ==
    \A k \in 1..Len(processed_laps) : processed_laps[k].lap_number = k


----------------------------------------------------------------------------
(* The normalizers as functions of their input, and a second run on the    *)
(* laps a first run returned                                               *)

\* process_fit_laps(raw, sport, min_duration) from lap idx on, out so far
RECURSIVE FitFrom(_, _, _)
FitFrom(raw, idx, out) ==
    IF idx = Len(raw) THEN out
    ELSE FitFrom(raw, idx + 1,
             IF FitSkipped(raw[idx + 1]) THEN out
             ELSE Append(out, [processed_lap(raw[idx + 1], idx)
                                   EXCEPT !.lap_number = Len(out) + 1]))

\* process_form_lengths(ls) from length idx on, with the current set cur
RECURSIVE FormFrom(_, _, _, _)
FormFrom(ls, idx, cur, out) ==
    IF idx = Len(ls)
    THEN IF cur # <<>> THEN Append(out, _combine_form_lengths(cur)) ELSE out
    ELSE LET length == ls[idx + 1]
             flush == /\ cur # <<>>
                      /\ length.set_description # cur[Len(cur)].set_description
         IN FormFrom(ls, idx + 1,
                Append(IF flush THEN <<>> ELSE cur, length),
                IF flush THEN Append(out, _combine_form_lengths(cur)) ELSE out)

\* The second run starts from the laps a first run returned
InitRenorm ==
    /\ pc \in {"fit_loop", "form_start"}
    /\ processed_laps = <<>>
    /\ IF pc = "fit_loop"
       THEN /\ sport \in {"running", "swimming"}
            /\ min_duration \in {3, 5}
            /\ laps \in {FitFrom(raw, 0, <<>>) : raw \in SeqsUpTo(FitLapKinds, MaxRaw)}
            /\ lengths = Idle
       ELSE /\ lengths \in {FormFrom(ls, 0, <<>>, <<>>) :
                               ls \in SeqsUpTo(FormLengthKinds, MaxRaw)}
            /\ laps = Idle /\ sport = "" /\ min_duration = 0
    /\ lap_i = 0
    /\ current_set = None /\ current_laps = <<>>
    /\ line = Idle /\ result = Idle
    /\ lines = Idle /\ i = 0 /\ planned_blocks = Idle /\ num_rounds = 0
    /\ raised = FALSE /\ ApiIdle
    /\ actual_laps = Idle /\ block_index = 0 /\ lap_index = 0
    /\ combined_laps = Idle /\ accumulated_duration = 0
    /\ accumulated_distance = 0 /\ grouped = Idle

SpecRenorm == InitRenorm /\ [][NextNorm]_vars

\* The run of the actions agrees with the functions
NormAsFunction ==
    pc = "norm_done" =>
        processed_laps = IF laps # Idle \/ lengths = Idle
                         THEN FitFrom(laps, 0, <<>>)
                         ELSE FormFrom(lengths, 0, <<>>, <<>>)

----------------------------------------------------------------------------
(* Properties of the normalizers                                           *)

FitPath == sport # ""

\* The shortest elapsed time a record may have to be kept
Floor == IF sport = "swimming" \/ ~FitPath THEN 3 ELSE min_duration

\* The positions of the raw laps that are at least as long as the floor
LongEnough == {k \in 1..Len(laps) : laps[k].total_elapsed_time >= Floor}

\* C11: the output holds, in input order, exactly the records whose elapsed
\* time is at least the floor (3 s for swimming, min_duration otherwise), and
\* no lap merged from swim-goggle lengths is shorter than the floor.
C11_FloorApplied ==
    pc = "norm_done" =>
        IF FitPath
        THEN /\ Len(processed_laps) = Cardinality(LongEnough)
             /\ \A k \in 1..Len(processed_laps) :
                   LET n == processed_laps[k].original_lap_number
                   IN /\ n \in LongEnough
                      /\ Cardinality({m \in LongEnough : m < n}) = k - 1
                      /\ processed_laps[k].duration_seconds
                             = laps[n].total_elapsed_time
        ELSE \A k \in 1..Len(processed_laps) :
                 processed_laps[k].duration_seconds >= Floor

\* A step of process_form_lengths that merges the lengths of a set
MergeStep == ~FitPath /\ Len(processed_laps') = Len(processed_laps) + 1

\* C12: a merged lap's distance, stroke count, number of lengths, heart
\* rate and SWOLF are those of the active lengths of its set, and its
\* duration is the move and rest time of all the lengths of its set.
C12_ActiveOnly ==
    [][MergeStep =>
          LET merged == processed_laps'[Len(processed_laps')]
              act == active_lengths(current_laps)
          IN /\ merged.distance_m = SumField(act, "distance_m")
             /\ merged.total_strokes = SumField(act, "stroke_count")
             /\ merged.num_lengths = Len(act)
             /\ merged.avg_hr = IntMean(hr_values(act))
             /\ merged.swolf = IntMean(swolf_values(act))
             /\ merged.duration_seconds = SumField(current_laps, "move_time")
                                          + SumField(current_laps, "rest_time")]_vars

\* The laps given to the second run
Normalized == IF FitPath THEN laps ELSE lengths

\* C13: a run of the normalizer on the laps a first run returned ends, and
\* returns as many laps with the same durations, distances and rest flags.
C13_SecondRunChangesNothing ==
    /\ ~raised
    /\ pc = "norm_done" =>
          /\ Len(processed_laps) = Len(Normalized)
          /\ \A k \in 1..Len(processed_laps) :
                /\ processed_laps[k].duration_seconds = Normalized[k].duration_seconds
                /\ processed_laps[k].distance_m = Normalized[k].distance_m
                /\ processed_laps[k].is_rest = Normalized[k].is_rest

----------------------------------------------------------------------------
(* calculate_overall_summary                                               *)

\* str(n) for n >= 0, and n formatted with :02d
RECURSIVE ToStr(_)
ToStr(n) ==
    IF n < 10 THEN <<<<"0", "1", "2", "3", "4", "5", "6", "7", "8", "9">>[n + 1]>>
    ELSE ToStr(n \div 10) \o <<<<"0", "1", "2", "3", "4", "5", "6", "7", "8", "9">>[(n % 10) + 1]>>
Pad2(n) == IF n < 10 THEN <<"0">> \o ToStr(n) ELSE ToStr(n)

NoPace == <<"-", "-", ":", "-", "-">>
NoSpeed == <<"-", "-", ".", "-">>

\* format_pace(speed_ms), the speed being speed.num / speed.den
format_pace(speed) ==
    IF speed.num <= 0 THEN NoPace
    ELSE LET pace_sec_per_km == (1000 * speed.den) \div speed.num
         IN ToStr(pace_sec_per_km \div 60) \o <<":">> \o Pad2(pace_sec_per_km % 60)

\* format_swim_pace(speed_ms)
format_swim_pace(speed) ==
    IF speed.num <= 0 THEN NoPace
    ELSE LET pace_sec_per_100m == (100 * speed.den) \div speed.num
         IN ToStr(pace_sec_per_100m \div 60) \o <<":">> \o Pad2(pace_sec_per_100m % 60)

\* format_speed(speed_ms): km/h with one decimal
format_speed(speed) ==
    IF speed.num <= 0 THEN NoSpeed
    ELSE LET tenths == (72 * speed.num + speed.den) \div (2 * speed.den)
         IN ToStr(tenths \div 10) \o <<".">> \o ToStr(tenths % 10)

\* format_duration(seconds)
format_duration(seconds) ==
    IF seconds < 3600
    THEN ToStr(seconds \div 60) \o <<":">> \o Pad2(seconds % 60)
    ELSE ToStr(seconds \div 3600) \o <<":">> \o Pad2((seconds % 3600) \div 60)
         \o <<":">> \o Pad2(seconds % 60)

\* f"{total_distance/1000:.2f} km" if total_distance >= 1000
\* else f"{int(total_distance)}m", for a whole number of metres
FormatDistance(total_distance) ==
    IF total_distance >= 1000
    THEN LET hundredths == (total_distance + 5) \div 10
         IN ToStr(hundredths \div 100) \o <<".">> \o Pad2(hundredths % 100) \o <<" ", "k", "m">>
    ELSE ToStr(total_distance) \o <<"m">>

\* Laps of a session: duration, distance and the rest flag (on the totals
\* of these laps the floating-point quotients of the source round as the
\* exact ones above do)
SummaryLapKinds ==
    {[duration_seconds |-> 60, distance_m |-> 100, is_rest |-> FALSE],
     [duration_seconds |-> 30, distance_m |-> 0, is_rest |-> TRUE],
     [duration_seconds |-> 0, distance_m |-> 0, is_rest |-> FALSE],
     [duration_seconds |-> 3700, distance_m |-> 1000, is_rest |-> FALSE],
     [duration_seconds |-> 17, distance_m |-> 30, is_rest |-> TRUE]}

\* The laps taken without looking at the rest flag
ActiveLapsUnfiltered(ls, is_swimming) == ls

\* [l for l in actual_laps if not l.get('is_rest')] if is_swimming else actual_laps
RECURSIVE active_laps(_, _)
active_laps(ls, is_swimming) ==
    IF ~is_swimming \/ ls = <<>> THEN ls
    ELSE IF ls[1].is_rest THEN active_laps(Tail(ls), is_swimming)
    ELSE <<ls[1]>> \o active_laps(Tail(ls), is_swimming)

\* calculate_overall_summary(actual_laps, {'sport': sport})
calculate_overall_summary(ls, sp) ==
    IF ls = <<>> THEN None
    ELSE LET active == active_laps(ls, sp = "swimming")
             total_duration == SumOver(ls, "duration_seconds")
             total_distance == SumOver(active, "distance_m")
             active_time == SumOver(active, "duration_seconds")
         IN Some([sport |-> sp,
                  total_duration |-> format_duration(total_duration),
                  active_time |-> format_duration(active_time),
                  total_distance |-> FormatDistance(total_distance),
                  overall_pace |-> IF active_time > 0
                                   THEN format_pace(Speed(total_distance, active_time))
                                   ELSE NoPace,
                  overall_swim_pace |-> IF active_time > 0
                                        THEN format_swim_pace(Speed(total_distance, active_time))
                                        ELSE NoPace,
                  overall_speed |-> IF active_time > 0
                                    THEN format_speed(Speed(total_distance, active_time))
                                    ELSE NoSpeed,
                  total_laps |-> Len(ls),
                  active_laps |-> Len(active)])

InitSummary ==
    /\ pc = "summary"
    /\ actual_laps \in SeqsUpTo(SummaryLapKinds, MaxLaps)
    /\ sport \in {"running", "swimming"}
    /\ result = Idle /\ line = Idle
    /\ lines = Idle /\ i = 0 /\ planned_blocks = Idle /\ num_rounds = 0
    /\ raised = FALSE /\ ApiIdle
    /\ block_index = 0 /\ lap_index = 0
    /\ combined_laps = Idle /\ accumulated_duration = 0
    /\ accumulated_distance = 0 /\ grouped = Idle
    /\ laps = Idle /\ min_duration = 0 /\ lap_i = 0 /\ processed_laps = Idle
    /\ lengths = Idle /\ current_set = Idle /\ current_laps = Idle

Summarize ==
    /\ pc = "summary"
    /\ result' = calculate_overall_summary(actual_laps, sport)
    /\ pc' = "summary_done"
    /\ UNCHANGED <<line, parseVars, planned_blocks, sport, matchVars, fitVars,
                   processed_laps, formVars, apiVars>>

NextSummary == Summarize

SpecSummary == InitSummary /\ [][NextSummary]_vars

\* A lap counts as active unless the sport is swimming and it is a rest
CountsAsActive(k) == ~(sport = "swimming" /\ actual_laps[k].is_rest)

\* The sum of a field over the first n laps that count as active
RECURSIVE ActiveSum(_, _)
ActiveSum(n, field) ==
    IF n = 0 THEN 0
    ELSE ActiveSum(n - 1, field)
         + (IF CountsAsActive(n) THEN actual_laps[n][field] ELSE 0)

\* C14: for swimming the total distance and the active time are summed over
\* the laps that are not rests, and the total duration over all laps; for
\* other sports every lap counts; with an active time of 0 the paces and the
\* speed are the placeholders.
C14_ActiveTotals ==
    (pc = "summary_done" /\ actual_laps # <<>>) =>
        LET n == Len(actual_laps)
            s == result[1]
        IN /\ ~raised /\ result # None
           /\ s.total_duration = format_duration(SumOver(actual_laps, "duration_seconds"))
           /\ s.total_distance = FormatDistance(ActiveSum(n, "distance_m"))
           /\ s.active_time = format_duration(ActiveSum(n, "duration_seconds"))
           /\ s.active_laps = Cardinality({k \in 1..n : CountsAsActive(k)})
           /\ sport # "swimming" => s.active_laps = n
           /\ ActiveSum(n, "duration_seconds") = 0 =>
                 /\ s.overall_pace = NoPace
                 /\ s.overall_swim_pace = NoPace
                 /\ s.overall_speed = NoSpeed

C14_Witness ==
    /\ pc = "summary_done" /\ sport = "swimming" /\ Len(actual_laps) = 3
    /\ actual_laps[1].is_rest /\ actual_laps[1].distance_m > 0
    /\ ~actual_laps[2].is_rest /\ actual_laps[2].distance_m > 0
    /\ actual_laps[3].is_rest /\ actual_laps[3].distance_m = 0
    /\ result[1].active_laps = 1
    /\ result[1].total_distance = <<"1", "0", "0", "m">>
    /\ result[1].active_time = <<"1", ":", "0", "0">>
    /\ result[1].total_duration = <<"1", ":", "4", "7">>

----------------------------------------------------------------------------
(* The HTTP API (src/api.py): key validation, request validation, the      *)
(* rate limiter and the /analyze handler                                   *)

MaxRequests == 11

\* @limiter.limit("10/minute")
RateLimit == 10

\* API_KEYS
API_KEYS ==
    [k \in {"demo-free-key", "demo-pro-key", "demo-elite-key"} |->
        IF k = "demo-free-key" THEN [tier |-> "free", daily_limit |-> 3]
        ELSE IF k = "demo-pro-key" THEN [tier |-> "pro", daily_limit |-> 50]
        ELSE [tier |-> "elite", daily_limit |-> 1000]]

Tiers == {"anonymous", "free", "pro", "elite"}

\* Every key taken for the key of nobody in particular
GetApiKeyLenient(api_key) ==
    [raises |-> FALSE, key_info |-> [tier |-> "anonymous", daily_limit |-> 3]]

\* get_api_key(api_key): the key's tier, or HTTPException(401)
get_api_key(api_key) ==
    IF api_key = None
    THEN [raises |-> FALSE, key_info |-> [tier |-> "anonymous", daily_limit |-> 3]]
    ELSE IF api_key[1] \notin DOMAIN API_KEYS
    THEN [raises |-> TRUE, key_info |-> None]
    ELSE [raises |-> FALSE, key_info |-> API_KEYS[api_key[1]]]

\* The X-API-Key header of a request: absent, or a key
HeaderKeys ==
    {None, Some("demo-free-key"), Some("demo-pro-key"), Some("demo-elite-key"),
     Some("invalid-key")}

\* The uploads (none of them over the 50 MB that the handler refuses): a FIT
\* file with laps, bytes that are no FIT file, a CSV without length rows
Uploads == {"laps.fit", "fake.fit", "empty.csv"}

\* Requests to POST /analyze: the file and plan form fields may be omitted
AnalyzeRequests ==
    [endpoint : {"/analyze"},
     api_key : {None, Some("demo-elite-key"), Some("invalid-key")},
     file : {None} \cup {Some(f) : f \in Uploads},
     plan : {None, Some("4x\nHard 8m\nEasy 2m")}]

ValidateRequests ==
    [endpoint : {"/validate-key"}, api_key : HeaderKeys]

Status(code) == [status |-> code]

\* The body of analyze_workout once the request has been admitted
AnalyzeBody(req) ==
    LET file == req.file[1]
    IN IF file = "empty.csv" THEN Status(400)
       ELSE IF file = "fake.fit"
       THEN [status |-> 200, success |-> FALSE, report |-> ""]
       ELSE [status |-> 200, success |-> TRUE,
             report |-> IF req.plan # None THEN "planned" ELSE "laps"]

InitApi ==
    /\ pc = "api"
    /\ request = <<>> /\ response = <<>>
    /\ minute_hits = 0 /\ today = 0
    /\ served = [t \in Tiers |-> 0]
    /\ line = Idle /\ result = Idle
    /\ lines = Idle /\ i = 0 /\ planned_blocks = Idle /\ num_rounds = 0
    /\ raised = FALSE
    /\ actual_laps = Idle /\ sport = "" /\ block_index = 0 /\ lap_index = 0
    /\ combined_laps = Idle /\ accumulated_duration = 0
    /\ accumulated_distance = 0 /\ grouped = Idle
    /\ laps = Idle /\ min_duration = 0 /\ lap_i = 0 /\ processed_laps = Idle
    /\ lengths = Idle /\ current_set = Idle /\ current_laps = Idle

apiRest == <<pc, line, result, parseVars, planned_blocks, sport, matchVars,
             fitVars, processed_laps, formVars>>

\* GET /validate-key
ValidateKey ==
    /\ pc = "api"
    /\ \E req \in ValidateRequests :
          /\ request' = req
          /\ response' =
                LET key == get_api_key(req.api_key)
                IN IF key.raises THEN Status(401)
                   ELSE [status |-> 200, valid |-> TRUE,
                         tier |-> key.key_info.tier,
                         daily_limit |-> key.key_info.daily_limit]
    /\ UNCHANGED <<minute_hits, served, today, apiRest>>

\* POST /analyze: the key dependency, the validation of the form fields,
\* the rate limiter, then the handler
Analyze ==
    /\ pc = "api" /\ today < MaxRequests
    /\ \E req \in AnalyzeRequests :
          LET key == get_api_key(req.api_key)
              admitted == ~key.raises /\ req.file # None /\ minute_hits < RateLimit
              answer == IF key.raises THEN Status(401)
                        ELSE IF req.file = None THEN Status(422)
                        ELSE IF minute_hits >= RateLimit THEN Status(429)
                        ELSE AnalyzeBody(req)
          IN /\ request' = req
             /\ response' = answer
             /\ minute_hits' = IF admitted THEN minute_hits + 1 ELSE minute_hits
             /\ served' = IF admitted /\ answer.status = 200 /\ answer.success
                          THEN [served EXCEPT ![key.key_info.tier] = @ + 1]
                          ELSE served
    /\ today' = today + 1
    /\ UNCHANGED apiRest

\* The limiter's window of one minute ends
MinutePasses ==
    /\ pc = "api" /\ minute_hits > 0
    /\ minute_hits' = 0
    /\ UNCHANGED <<request, response, served, today, apiRest>>

\* The day ends
DayPasses ==
    /\ pc = "api" /\ today > 0
    /\ minute_hits' = 0 /\ today' = 0
    /\ served' = [t \in Tiers |-> 0]
    /\ UNCHANGED <<request, response, apiRest>>

NextApi == ValidateKey \/ Analyze \/ MinutePasses \/ DayPasses

SpecApi == InitApi /\ [][NextApi]_vars

Answered == response # <<>>

\* C15: a POST to /analyze without the plan field is answered 422, as one
\* without the file field is.
C15_MissingPlanRejected ==
    (Answered /\ request.endpoint = "/analyze" /\ request.api_key = None) =>
        /\ request.file = None => response.status = 422
        /\ request.plan = None => response.status = 422

\* What a request does to the key it carries
KeyStep ==
    request' # request \/ response' # response =>
        LET k == request'.api_key
        IN /\ k = None =>
                 /\ response'.status # 401
                 /\ request'.endpoint = "/validate-key" =>
                       /\ response'.status = 200
                       /\ response'.tier = "anonymous" /\ response'.daily_limit = 3
           /\ k \in {Some("demo-free-key"), Some("demo-pro-key"), Some("demo-elite-key")} =>
                 /\ response'.status # 401
                 /\ request'.endpoint = "/validate-key" =>
                       /\ response'.status = 200
                       /\ <<k[1], response'.tier, response'.daily_limit>> \in
                             {<<"demo-free-key", "free", 3>>,
                              <<"demo-pro-key", "pro", 50>>,
                              <<"demo-elite-key", "elite", 1000>>}
           /\ k \notin {None, Some("demo-free-key"), Some("demo-pro-key"),
                        Some("demo-elite-key")} =>
                 /\ response' = Status(401)
                 /\ minute_hits' = minute_hits /\ served' = served

\* C16: without an X-API-Key header a request is accepted as tier anonymous
\* with daily limit 3; with a known key it is accepted with the key's tier
\* and limit (free 3, pro 50, elite 1000); with any other key it is answered
\* 401 and the handler and the limiter are not reached.
C16_KeyValidation == [][KeyStep]_vars

C16_Witness ==
    /\ request # <<>> /\ request.endpoint = "/analyze"
    /\ request.api_key = Some("invalid-key") /\ request.file # None
    /\ response = Status(401)
    /\ served["elite"] > 0 /\ minute_hits > 0

DailyLimit(t) ==
    IF t \in {"anonymous", "free"} THEN 3 ELSE IF t = "pro" THEN 50 ELSE 1000

\* C17: on no day is a caller served more analyses than its tier's daily
\* limit (anonymous 3, free 3, pro 50, elite 1000).
C17_DailyLimitEnforced ==
    pc = "api" => \A t \in Tiers : served[t] <= DailyLimit(t)

----------------------------------------------------------------------------
(* Further properties of group_laps_by_planned                             *)

\* Duration of the m laps after the first `from`
RECURSIVE DurationOfRun(_, _)
DurationOfRun(from, m) ==
    IF m = 0 THEN 0
    ELSE DurationOfRun(from, m - 1) + actual_laps[from + m].duration_seconds

\* 20 * (acc - (target - max(10, 0.15 * target))) >= 0
WithinTolerance(acc, target) ==
    20 * acc >= 20 * target - (IF 3 * target > 200 THEN 3 * target ELSE 200)

\* Group k is the shortest non-empty run of the laps left whose duration is
\* at least target - max(10, 0.15 * target), or all the laps left
ShortestRunByDuration(k, target) ==
    LET from == Consumed(k - 1)
        n == Len(grouped[k].actual_laps)
        left == Len(actual_laps) - from
    IN /\ n <= left
       /\ left > 0 => n >= 1
       /\ \A m \in 1..(n - 1) : ~WithinTolerance(DurationOfRun(from, m), target)
       /\ n < left => WithinTolerance(DurationOfRun(from, n), target)

\* C18: a block with a duration target T, for a sport other than swimming
\* or without a distance target, gets the shortest non-empty run of the next
\* laps whose duration is at least T - max(10, 0.15*T), or all that is left.
C18_DurationMatch ==
    \A k \in 1..Len(grouped) :
        LET b == grouped[k].planned
        IN (/\ b.duration_seconds # 0
            /\ sport # "swimming" \/ b.target_distance_m = None)
               => ShortestRunByDuration(k, b.duration_seconds)

C18_Witness ==
    /\ pc = "match_done" /\ sport = "running" /\ Len(actual_laps) = 4
    /\ Len(planned_blocks) >= 1
    /\ planned_blocks[1].duration_seconds = 100
    /\ Len(grouped[1].actual_laps) = 3
    /\ DurationOfRun(0, 3) = 90

NoDurationTarget(b) == b.duration_seconds = 0
NoDistanceTarget(b) == b.target_distance_m = None \/ b.target_distance_m = Some(0)

\* Group k holds the next lap when one is left, and nothing otherwise
OneLapOrNone(k) ==
    Len(grouped[k].actual_laps)
        = IF Consumed(k - 1) < Len(actual_laps) THEN 1 ELSE 0

\* C19 as stated: the one-lap fallback is taken only for a block with no
\* target of either kind.
C19_FallbackOnlyWithoutTargets ==
    pc = "fallback" => NoDurationTarget(planned) /\ NoDistanceTarget(planned)

\* C19, amended: the one-lap fallback is taken exactly for a block without
\* a duration target whose distance target is null or 0 or whose sport is
\* not swimming; its group is the next lap, when one is left.  A block with
\* a duration target is never given to the fallback.
C19_FallbackWithoutUsableTarget ==
    /\ pc \in {"swim_loop", "dur_loop", "fallback"} =>
          (pc = "fallback" <=>
              /\ NoDurationTarget(planned)
              /\ sport # "swimming" \/ NoDistanceTarget(planned))
    /\ \A k \in 1..Len(grouped) :
          (/\ NoDurationTarget(grouped[k].planned)
           /\ sport # "swimming" \/ NoDistanceTarget(grouped[k].planned))
              => OneLapOrNone(k)

C19_Witness ==
    /\ pc = "match_done" /\ sport = "running" /\ Len(actual_laps) >= 2
    /\ Len(planned_blocks) >= 1
    /\ planned_blocks[1].duration_seconds = 0
    /\ planned_blocks[1].target_distance_m = Some(400)
    /\ Len(grouped[1].actual_laps) = 1

----------------------------------------------------------------------------
(* The lines a standalone repetition group takes                           *)

\* The stripped line is digits, then "x" or "X", with white space around it
OnlyMultiplier(s) ==
    \E x \in 2..Len(s) :
        /\ s[x] \in {"x", "X"}
        /\ \E q \in 1..(x - 1) :
              /\ \A k \in 1..q : s[k] \in Digits
              /\ \A k \in (q + 1)..(x - 1) : s[k] \in Spaces
        /\ \A k \in (x + 1)..Len(s) : s[k] \in Spaces

\* The stripped line begins with "Warm up <digit>" or "Cool Down"
BeginsSection(s) ==
    /\ Len(s) >= 9
    /\ \/ lower(SubSeq(s, 1, 8)) = <<"w", "a", "r", "m", " ", "u", "p", " ">> /\ s[9] \in Digits
       \/ lower(SubSeq(s, 1, 9)) = <<"c", "o", "o", "l", " ", "d", "o", "w", "n">>

\* The first line after line m (1-based) that ends the body; one past the
\* last line if there is none
FirstTerminator(m) ==
    LET stops == {j \in (m + 1)..Len(lines) :
                     OnlyMultiplier(strip(lines[j])) \/ BeginsSection(strip(lines[j]))}
    IN IF stops = {} THEN Len(lines) + 1 ELSE Min(stops)

\* The non-blank lines strictly between line m and line n, stripped
Between(m, n) == NonBlank(SubSeq(lines, m + 1, n - 1))

\* The raw texts of the first round of the blocks a step adds
FirstRoundTexts(n) ==
    [k \in 1..(Len(NewBlocks) \div n) |-> NewBlocks[k].raw_text]

RECURSIVE RetainedTexts(_)
RetainedTexts(ls) ==
    IF ls = <<>> THEN <<>>
    ELSE (IF Retained(ParseOf(ls[1])) THEN <<ParseOf(ls[1]).ret[1].raw_text>> ELSE <<>>)
         \o RetainedTexts(Tail(ls))

\* What a step of the parser does to the line index
LinesTakenOnce ==
    /\ pc = "parse" => i' >= i /\ i' <= Len(lines)
    /\ PlanStep \/ (pc = "parse" /\ pc' = "parse" /\ ~IsPlanLine) => i' > i
    /\ (PlanStep /\ ~StandaloneStep) \/ (pc = "parse" /\ pc' = "parse" /\ ~IsPlanLine)
          => i' = i + 1
    /\ StandaloneStep =>
          LET stop == FirstTerminator(i + 1)
              n == Repetitions(CurrentLine)
          IN /\ i' = stop - 1
             /\ n > 0 => FirstRoundTexts(n) = RetainedTexts(Between(i + 1, stop))
             /\ stop <= Len(lines) => ~IsSkipped(strip(lines[stop]))
    /\ (pc = "parse" /\ pc' = "parse_done") => i = Len(lines)

\* C20: the body of a standalone group is the non-blank lines after the
\* multiplier up to, not including, the first line that is a standalone
\* multiplier or begins with "Warm up <digit>" or "Cool Down"; that line is
\* the next one the parser processes, every step moves past the lines it
\* processed, and the parser returns only after the last line.
C20_BodyAndTerminator == [][LinesTakenOnce]_vars

C20_Witness ==
    /\ pc = "parse_done"
    /\ lines = <<<<"4", "x">>, <<"H", "a", "r", "d", " ", "8", "m">>, <<"C", "o", "o", "l", " ", "D", "o", "w", "n", " ", "5", "m">>>>
    /\ Len(planned_blocks) = 5
    /\ planned_blocks[5].raw_text = <<"C", "o", "o", "l", " ", "D", "o", "w", "n", " ", "5", "m">>
    /\ ~planned_blocks[5].is_main_set

----------------------------------------------------------------------------
(* Comments, the number of rounds, inline groups and labels                *)

\* line.startswith('#') for a block's text
FromComment(block) == block.raw_text # <<>> /\ block.raw_text[1] = "#"

\* C21: no line that starts with '#' produces a block, wherever it stands
\* in the plan: before, between, after or inside the body of a group.
C21_CommentsGiveNoBlock ==
    \A k \in 1..Len(planned_blocks) : ~FromComment(planned_blocks[k])

\* The lines (1-based) the parser opens a group at: every standalone
\* multiplier, and every inline multiplier that is not a body line of a
\* standalone group
InBody(j) ==
    \E m \in 1..(j - 1) : IsStandaloneMult(strip(lines[m])) /\ BodyEnd(m) > j

GroupLines ==
    {j \in 1..Len(lines) :
        \/ IsStandaloneMult(strip(lines[j]))
        \/ IsInlineMult(strip(lines[j])) /\ ~InBody(j)}

GroupRepetitions == {Repetitions(strip(lines[j])) : j \in GroupLines}

MaxOrZero(S) == IF S = {} THEN 0 ELSE Max(S)

\* C22 as stated: the second result is the greatest repetitions value over
\* all groups of the plan, 0 when the plan has no group.
C22_MaxOverAllGroups ==
    pc = "parse_done" => num_rounds = MaxOrZero(GroupRepetitions)

\* C22: the second result is the greatest repetitions value over the groups
\* that repeat more than once, 0 when the plan has no such group.
C22_MaxOverRepeatedGroups ==
    pc = "parse_done" =>
        num_rounds = MaxOrZero({n \in GroupRepetitions : n > 1})

C22_Witness ==
    /\ pc = "parse_done"
    /\ lines = <<<<"4", "x">>, <<"C", "o", "o", "l", " ", "D", "o", "w", "n", " ", "5", "m">>, <<"2", "x", " ", "H", "a", "r", "d", " ", "8", "m", ",", " ", "E", "a", "s", "y", " ", "2", "m">>>>
    /\ num_rounds = 4

----------------------------------------------------------------------------
(* parse_plan_text as a function of the plan, and a group written on one   *)
(* line or on several                                                      *)

\* The while loop of parse_plan_text from line j (0-based) on
RECURSIVE ParseFrom(_, _, _, _)
ParseFrom(ls, j, blocks, n) ==
    IF j >= Len(ls)
    THEN [raises |-> FALSE, planned_blocks |-> blocks, num_rounds |-> n]
    ELSE LET l == strip(ls[j + 1])
             failed == [raises |-> TRUE, planned_blocks |-> blocks, num_rounds |-> n]
         IN IF IsSkipped(l) THEN ParseFrom(ls, j + 1, blocks, n)
            ELSE IF IsStandaloneMult(l)
            THEN LET body == CollectBody(ls, SkipBlank(ls, j + 1), <<>>)
                 IN IF body.raises THEN failed
                    ELSE ParseFrom(ls, body.i,
                                   blocks \o Expand(body.sub_intervals, Repetitions(l)),
                                   NumRounds(n, Repetitions(l)))
            ELSE IF IsInlineMult(l)
            THEN LET got == CollectParts(SplitParts(rest_of_line(l)), 1, <<>>)
                 IN IF got.raises THEN failed
                    ELSE ParseFrom(ls, j + 1,
                                   blocks \o Expand(got.sub_intervals, Repetitions(l)),
                                   NumRounds(n, Repetitions(l)))
            ELSE LET interval == ParseOf(l)
                 IN IF interval.raises THEN failed
                    ELSE ParseFrom(ls, j + 1,
                                   IF Retained(interval)
                                   THEN Append(blocks, Block(interval.ret[1], FALSE, None))
                                   ELSE blocks,
                                   n)

\* The loop run step by step ends where the function does
ParseAsFunction ==
    /\ pc = "parse_done" =>
          /\ ~ParseFrom(lines, 0, <<>>, 0).raises
          /\ planned_blocks = ParseFrom(lines, 0, <<>>, 0).planned_blocks
          /\ num_rounds = ParseFrom(lines, 0, <<>>, 0).num_rounds
    /\ pc = "parse_raised" => ParseFrom(lines, 0, <<>>, 0).raises

\* 'Nx' followed by the lines A, B, ...
StandaloneForm(mult, parts) == <<mult>> \o parts

GroupPlans ==
    LET lists == PartLists(MaxParts) \ {<<>>}
        plans == {<<InlineForm(m, ps, sep)>> :
                      m \in GroupMultipliers, ps \in lists, sep \in GroupSeparators}
                 \cup {StandaloneForm(m, ps) : m \in GroupMultipliers, ps \in lists}
    IN plans \cup {<<<<"#", " ", "m", "a", "i", "n", " ", "s", "e", "t">>>> \o p : p \in plans}

InitGroup ==
    /\ pc = "parse"
    /\ lines \in GroupPlans
    /\ i = 0 /\ planned_blocks = <<>> /\ num_rounds = 0 /\ raised = FALSE /\ ApiIdle
    /\ line = Idle /\ result = Idle
    /\ actual_laps = Idle /\ sport = "" /\ block_index = 0 /\ lap_index = 0
    /\ combined_laps = Idle /\ accumulated_duration = 0
    /\ accumulated_distance = 0 /\ grouped = Idle
    /\ laps = Idle /\ min_duration = 0 /\ lap_i = 0 /\ processed_laps = Idle
    /\ lengths = Idle /\ current_set = Idle /\ current_laps = Idle

SpecGroup == InitGroup /\ [][NextParse]_vars

\* The plan is one inline group, parsed to the end
InlineParsed ==
    pc = "parse_done" /\ Len(lines) = 1 /\ IsInlineMult(lines[1])

\* The same group written on several lines
Unfolded ==
    StandaloneForm(SubSeq(lines[1], 1, MultiplierEnd(lines[1]) - 1),
                   SplitParts(rest_of_line(lines[1])))

\* A part that would end the body of a standalone group
EndsBody(part) == OnlyMultiplier(strip(part)) \/ BeginsSection(strip(part))

NoPartEndsBody ==
    \A k \in 1..Len(SplitParts(rest_of_line(lines[1]))) :
        ~EndsBody(SplitParts(rest_of_line(lines[1]))[k])

\* C23 as stated: an inline group 'Nx A, B, ...' parses into the blocks of
\* 'Nx' followed by the lines A, B, ..., whatever the parts are.
C23_InlineAsStandalone ==
    InlineParsed => planned_blocks = ParseFrom(Unfolded, 0, <<>>, 0).planned_blocks

\* C23: an inline group 'Nx A, B, ...' none of whose parts is a standalone
\* multiplier or begins with 'Warm up <digit>' or 'Cool Down' parses into
\* the same blocks, is_main_set and round_number included, as 'Nx' followed
\* by the lines A, B, ...
C23_InlineAsStandaloneBody ==
    (InlineParsed /\ NoPartEndsBody) =>
        planned_blocks = ParseFrom(Unfolded, 0, <<>>, 0).planned_blocks

C23_Witness ==
    /\ InlineParsed /\ NoPartEndsBody
    /\ lines = <<<<"2", "x", " ", "H", "a", "r", "d", " ", "8", "m", ",", " ", "E", "a", "s", "y", " ", "2", "m">>>>
    /\ Len(planned_blocks) = 4
    /\ planned_blocks[3].round_number = Some(2)

----------------------------------------------------------------------------
(* Plans whose lines carry a label                                         *)

RECURSIVE LabelPlans(_)
LabelPlans(n) ==
    IF n = 0 THEN {<<>>}
    ELSE LabelPlans(n - 1)
         \cup {Append(t, l) : t \in {x \in LabelPlans(n - 1) : Len(x) = n - 1},
                              l \in LabelLines}

InitLabel ==
    /\ pc = "parse"
    /\ lines \in LabelPlans(MaxLines)
    /\ i = 0 /\ planned_blocks = <<>> /\ num_rounds = 0 /\ raised = FALSE /\ ApiIdle
    /\ line = Idle /\ result = Idle
    /\ actual_laps = Idle /\ sport = "" /\ block_index = 0 /\ lap_index = 0
    /\ combined_laps = Idle /\ accumulated_duration = 0
    /\ accumulated_distance = 0 /\ grouped = Idle
    /\ laps = Idle /\ min_duration = 0 /\ lap_i = 0 /\ processed_laps = Idle
    /\ lengths = Idle /\ current_set = Idle /\ current_laps = Idle

SpecLabel == InitLabel /\ [][NextParse]_vars

\* The plan with the label of every line taken away
Unlabelled(ls) == [k \in 1..Len(ls) |-> StripLabel(strip(ls[k]))]

\* C24: a label 'Warm Up:', 'Main Set:', 'Warm Down:' or 'Cool Down:' in
\* front of a plan line does not change what the plan parses into: the plan
\* gives the blocks and the number of rounds of the plan without its labels.
C24_LabelsChangeNothing ==
    pc = "parse_done" =>
        /\ planned_blocks = ParseFrom(Unlabelled(lines), 0, <<>>, 0).planned_blocks
        /\ num_rounds = ParseFrom(Unlabelled(lines), 0, <<>>, 0).num_rounds

----------------------------------------------------------------------------
(* Interval classes and pace ranges of a parsed line                       *)

\* The text of the returned block holds a keyword of the set
Holds(K) == \E kw \in K : Contains(lower(result.ret[1].raw_text), kw)

\* C25: the class of a block is RECOVERY when its text holds a RECOVERY
\* keyword, whatever else it holds; else WARMUP when it holds a WARMUP
\* keyword; else COOL when it holds a COOL keyword; and WORK otherwise.
C25_FirstMatchWins ==
    Returned =>
        /\ result.ret[1].type \in {"RECOVERY", "WARMUP", "COOL", "WORK"}
        /\ result.ret[1].type = "RECOVERY" <=> Holds(RecoveryKeywords)
        /\ result.ret[1].type = "WARMUP" <=>
               ~Holds(RecoveryKeywords) /\ Holds(WarmupKeywords)
        /\ result.ret[1].type = "COOL" <=>
               /\ ~Holds(RecoveryKeywords) /\ ~Holds(WarmupKeywords)
               /\ Holds(CoolKeywords)
        /\ line = <<"E", "a", "s", "y", " ", "W", "a", "r", "m", " ", "u", "p", " ", "5", "m">> => result.ret[1].type = "RECOVERY"
        /\ line = <<"W", "a", "r", "m", "-", "u", "p", " ", "t", "h", "e", "n", " ", "C", "o", "o", "l", " ", "5", "m">> => result.ret[1].type = "WARMUP"
        /\ line = <<"C", "o", "o", "l", " ", "D", "o", "w", "n", " ", "5", "m">> => result.ret[1].type = "COOL"
        /\ line = <<"M", "a", "i", "n", " ", "s", "e", "t", " ", "w", "o", "r", "k", " ", "5", "m">> => result.ret[1].type = "WORK"

C25_Witness ==
    /\ Returned /\ line = <<"E", "a", "s", "y", " ", "W", "a", "r", "m", " ", "u", "p", " ", "5", "m">>
    /\ Holds(WarmupKeywords) /\ result.ret[1].type = "RECOVERY"

\* Seconds of a pace "M:SS"
PaceSeconds(p) ==
    LET c == CHOOSE k \in 1..Len(p) : p[k] = ":"
    IN int(SubSeq(p, 1, c - 1)) * 60 + int(SubSeq(p, c + 1, Len(p)))

\* Speed of a pace over `metres` metres, 0 for a pace of no time
SpeedOfPace(p, metres) ==
    IF PaceSeconds(p) > 0 THEN Speed(metres, PaceSeconds(p)) ELSE ZeroSpeed

\* a <= b for two speeds kept as fractions
SpeedAtMost(a, b) == a.num * b.den <= b.num * a.den

StoresPace == Returned /\ result.ret[1].pace_range # None
FirstPace == result.ret[1].pace_range[1][1]
SecondPace == result.ret[1].pace_range[1][2]
MinSpeed == result.ret[1].target_pace_min_ms[1]
MaxSpeed == result.ret[1].target_pace_max_ms[1]

\* The range is written "Pace (a-b)": paces per 100 m
SwimCase ==
    \E p \in 1..Len(result.ret[1].raw_text) :
        /\ MatchAtCI(result.ret[1].raw_text, p, <<"p", "a", "c", "e">>)
        /\ PaceRangeAt(result.ret[1].raw_text,
                       RunEnd(result.ret[1].raw_text, p + 4, Spaces)) # <<>>

PaceMetres == IF SwimCase THEN 100 ELSE 1000

----------------------------------------------------------------------------
(* Rest laps                                                               *)

\* A swim lap: every lap merged from swim-goggle lengths, and a watch lap of
\* a swimming session
SwimLap == ~FitPath \/ sport = "swimming"

\* C27: a normalized lap's is_rest is true exactly when its distance is zero
\* or, for swimming, when it stands for no active length; so a lap merged
\* from rest lengths only has is_rest true.
C27_RestFlag ==
    \A k \in 1..Len(processed_laps) :
        processed_laps[k].is_rest <=>
            \/ processed_laps[k].distance_m = 0
            \/ SwimLap /\ processed_laps[k].num_lengths = 0

----------------------------------------------------------------------------
(* Heart rate, cadence and power of a group                                *)

\* The laps of a group that report the field: its value is not null
Reporting(ls, field) == {j \in 1..Len(ls) : ls[j][field] # None}

RECURSIVE SumReported(_, _)
SumReported(ls, field) ==
    IF ls = <<>> THEN 0
    ELSE (IF ls[1][field] # None THEN ls[1][field][1] ELSE 0)
         + SumReported(Tail(ls), field)

\* The group is the mean of the field over the laps that report it: a
\* quotient for the heart rate, a whole number for cadence and power
MeanOfReported(group, field) ==
    LET ls == group.actual_laps
        n == Cardinality(Reporting(ls, field))
        got == group.combined[1][field]
    IN IF n = 0 THEN got = None
       ELSE /\ got # None
            /\ IF field = "avg_hr"
               THEN got[1].num * n = SumReported(ls, field) * got[1].den
               ELSE got[1] = SumReported(ls, field) \div n

\* C28: the heart rate, cadence and power of a group are the means over
\* exactly the laps that report a non-null value: a lap without the field
\* is left out, and a lap that reports 0 is counted.
C28_MeanOverReporting ==
    \A k \in 1..Len(grouped) :
        grouped[k].combined # None =>
            /\ MeanOfReported(grouped[k], "avg_hr")
            /\ MeanOfReported(grouped[k], "cadence")
            /\ MeanOfReported(grouped[k], "avg_power")

\* C29: for every group with at least one lap, combined.max_hr is the
\* greatest max-HR value of its laps, and 0 (not null) when none of its
\* laps reports one.
C29_MaxHeartRate ==
    \A k \in 1..Len(grouped) :
        grouped[k].actual_laps # <<>> =>
            LET ls == grouped[k].actual_laps
                reported == {ls[j].max_hr[1] : j \in Reporting(ls, "max_hr")}
            IN /\ grouped[k].combined # None
               /\ grouped[k].combined[1].max_hr =
                      IF reported = {} THEN 0 ELSE Max(reported)

C29_Witness ==
    /\ Len(grouped) = 2
    /\ Len(grouped[1].actual_laps) = 2
    /\ grouped[1].actual_laps[1].max_hr = Some(160)
    /\ grouped[1].actual_laps[2].max_hr = Some(171)
    /\ grouped[1].combined[1].max_hr = 171
    /\ Len(grouped[2].actual_laps) = 1
    /\ grouped[2].actual_laps[1].max_hr = None
    /\ grouped[2].combined[1].max_hr = 0

----------------------------------------------------------------------------
(* Termination of parse_plan_text and group_laps_by_planned                *)

\* Either function, run to its end, on the plans made of RunLines and on
\* the laps of 100 m and of no distance: a call runs on without waiting for
\* anything, so a step that can be taken is taken
\* Longest plan run to its end
MaxRunLines == 2

RunLines ==
    {<<>>, <<"1", "x">>, <<"H", "a", "r", "d", " ", "8", "m">>, <<"C", "o", "o", "l", " ", "D", "o", "w", "n", " ", "5", "m">>, <<"2", "x", " ", "H", "a", "r", "d", " ", "8", "m", ",", " ", "E", "a", "s", "y", " ", "2", "m">>,
     <<"#", " ", "H", "a", "r", "d", " ", "8", "m">>}

InitRun ==
    \/ /\ InitParse
       /\ Len(lines) <= MaxRunLines
       /\ \A k \in 1..Len(lines) : lines[k] \in RunLines
    \/ InitMatch /\ \A k \in 1..Len(actual_laps) : actual_laps[k].distance_m \in {0, 100}
NextRun == NextParse \/ NextMatch
SpecRun == InitRun /\ [][NextRun]_vars /\ WF_vars(NextRun)

Ended == pc \in {"parse_done", "parse_raised", "match_done"}

\* An iteration of the parser's outer loop moves the line index forward,
\* and never past the last line
ParserAdvances ==
    (pc = "parse" /\ pc' = "parse") => (i' > i /\ i' <= Len(lines))

\* What is left of the matcher's work: three steps for each block still to
\* come, less those taken for the current one, and one for each lap not
\* yet consumed
MatcherLeft ==
    3 * (Len(planned_blocks) - block_index)
    + (Len(actual_laps) - lap_index)
    + (CASE pc = "for" -> 2
         [] pc \in {"swim_loop", "dur_loop", "fallback"} -> 1
         [] pc = "emit" -> 0
         [] pc = "match_done" -> 1)

\* A turn of a while loop of the matcher consumes a lap, and every step of
\* the matcher leaves less to do
MatcherDescends ==
    /\ (pc \in {"swim_loop", "dur_loop"} /\ pc' = pc) => lap_index' = lap_index + 1
    /\ pc \in {"for", "swim_loop", "dur_loop", "fallback", "emit"} =>
          /\ MatcherLeft' < MatcherLeft
          /\ MatcherLeft' >= 0
          /\ lap_index' <= Len(actual_laps)
          /\ block_index' <= Len(planned_blocks)

\* C30: both functions end on every input: each iteration of the parser's
\* outer loop moves the line index forward by at least one, also when the
\* body of a group ends at a multiplier or section line, and the matcher
\* takes a bounded number of steps for each block and one for each lap.
C30_Terminates ==
    /\ [][ParserAdvances /\ MatcherDescends]_vars
    /\ <>Ended

C30_Witness ==
    /\ pc = "parse_done" /\ i = Len(lines)
    /\ lines = <<<<"1", "x">>, <<"C", "o", "o", "l", " ", "D", "o", "w", "n", " ", "5", "m">>>>
    /\ Len(planned_blocks) = 1 /\ ~planned_blocks[1].is_main_set

====
